---- MODULE Spec2Model ----
(***************************************************************************)
(* Model of the orchestration core of chatterbox-tts-api:                   *)
(*   - the text segmentation functions of app/core/text_processing.py,      *)
(*   - the request status manager of app/core/status.py,                    *)
(*   - the buffered and streaming pipelines of app/api/endpoints/speech.py. *)
(* A text is a sequence of one-character strings ("EMDASH" stands for the   *)
(* one character U+2014).  None stands for Python's None.                   *)
(***************************************************************************)
EXTENDS Integers, Sequences, FiniteSets, TLC

\* None as an Optional[str] argument, and as an Optional[int] argument
None == "None"

NoInt == 0 - 1

(***************************************************************************)
(* Bounds of the model.                                                     *)
(***************************************************************************)
\* number of tokens an input text of the segmentation specification is built from
MaxTokens == 3
\* largest chunk size tried by the segmentation specification
MaxL == 4
\* number of speech requests the pipelines serve
MaxRequests == 2
\* number of sentences in the longest accepted request text
MaxSentences == 2
\* Config.MAX_CHUNK_LENGTH and Config.MAX_TOTAL_LENGTH (set from the
\* environment; defaults 280 and 3000) at the scale of the request texts
MAX_CHUNK_LENGTH == 4
MAX_TOTAL_LENGTH == 12
\* the streaming_chunk_size a streaming request may ask for
StreamChunkSize == 4
\* number of requests started through the manager's interface
MaxStarts == 11

(***************************************************************************)
(* Python string primitives, on sequences of characters.                    *)
(***************************************************************************)
SetMin(S) == CHOOSE x \in S : \A y \in S : x <= y

SetMax(S) == CHOOSE x \in S : \A y \in S : y <= x

\* str.isspace for one character (the whitespace of the model's alphabet)
IsSpace(c) == c \in {" ", "\n", "\t"}

\* str.strip()
strip(s) ==
    LET keep == {i \in 1..Len(s) : ~IsSpace(s[i])}
    IN  IF keep = {} THEN <<>> ELSE SubSeq(s, SetMin(keep), SetMax(keep))

\* s[i:] with a 0-based start
From(s, i) == SubSeq(s, i + 1, Len(s))

\* s[i:j] with 0-based bounds, j clipped to len(s)
Slice(s, i, j) == SubSeq(s, i + 1, IF j < Len(s) THEN j ELSE Len(s))

\* str.find(sub): 0-based position of the leftmost occurrence, -1 if none
find(s, sub) ==
    LET hits == {i \in 1..(Len(s) - Len(sub) + 1) :
                    \A j \in 1..Len(sub) : s[i + j - 1] = sub[j]}
    IN  IF hits = {} THEN -1 ELSE SetMin(hits) - 1

\* str.split(delimiter): leftmost non-overlapping matches, empty parts kept
RECURSIVE str_split(_, _)
str_split(s, d) ==
    LET p == find(s, d)
    IN  IF p = -1 THEN <<s>>
        ELSE <<SubSeq(s, 1, p)>> \o str_split(From(s, p + Len(d)), d)

\* str.split(): split on runs of whitespace, no empty parts
RECURSIVE split_ws(_)
split_ws(s) ==
    LET words == {i \in 1..Len(s) : ~IsSpace(s[i])}
    IN  IF words = {} THEN <<>>
        ELSE LET b == SetMin(words)
                 gaps == {i \in b..Len(s) : IsSpace(s[i])}
                 e == IF gaps = {} THEN Len(s) ELSE SetMin(gaps) - 1
             IN  <<SubSeq(s, b, e)>> \o split_ws(From(s, e))

\* re.split(r'(?<=[.!?])\s+', s): cut at each maximal whitespace run that
\* directly follows '.', '!' or '?'
RECURSIVE re_split_sentences(_)
re_split_sentences(s) ==
    LET starts == {i \in 2..Len(s) : s[i - 1] \in {".", "!", "?"} /\ IsSpace(s[i])}
    IN  IF starts = {} THEN <<s>>
        ELSE LET b == SetMin(starts)
                 after == {i \in b..Len(s) : ~IsSpace(s[i])}
                 e == IF after = {} THEN Len(s) ELSE SetMin(after) - 1
             IN  <<SubSeq(s, 1, b - 1)>> \o re_split_sentences(From(s, e))

\* re.split(r'\n\s*\n', s): cut at the leftmost newline whose whitespace run
\* holds another newline, up to the last newline of that run (\s* is greedy)
RECURSIVE re_split_paragraphs(_)
re_split_paragraphs(s) ==
    LET RunEnd(p) ==
            LET after == {i \in (p + 1)..Len(s) : ~IsSpace(s[i])}
            IN  IF after = {} THEN Len(s) ELSE SetMin(after) - 1
        Closers(p) == {q \in (p + 1)..RunEnd(p) : s[q] = "\n"}
        starts == {p \in 1..Len(s) : s[p] = "\n" /\ Closers(p) # {}}
    IN  IF starts = {} THEN <<s>>
        ELSE LET b == SetMin(starts)
                 e == SetMax(Closers(b))
             IN  <<SubSeq(s, 1, b - 1)>> \o re_split_paragraphs(From(s, e))

\* [chunk for chunk in chunks if chunk.strip()]
NonBlank(chunks) == SelectSeq(chunks, LAMBDA c : strip(c) # <<>>)

\* [chunk.strip() for chunk in chunks if chunk.strip()]
StripNonBlank(chunks) ==
    LET kept == NonBlank(chunks)
    IN  [i \in 1..Len(kept) |-> strip(kept[i])]

(***************************************************************************)
(* app/core/text_processing.py                                              *)
(***************************************************************************)
\* ''.join of a list of lists: the chunks lists appended one after another
RECURSIVE Flatten(_)
Flatten(lists) ==
    IF lists = <<>> THEN <<>> ELSE Head(lists) \o Flatten(Tail(lists))

\* the list [x] when x is a non-empty string, else []  (if x: out.append(x))
IfAny(x) == IF x # <<>> THEN <<x>> ELSE <<>>

\* if current_chunk: chunks.append(current_chunk.strip())
Flush(current_chunk) ==
    IF current_chunk # <<>> THEN <<strip(current_chunk)>> ELSE <<>>

\* a slip of the slicing loop: slices one character too wide
HardSlices_too_wide(word, max_length) ==
    [k \in 1..((Len(word) + max_length) \div (max_length + 1)) |->
        Slice(word, (k - 1) * (max_length + 1), k * (max_length + 1))]

\* for i in range(0, len(word), max_length): word[i:i + max_length]
HardSlices(word, max_length) ==
    [k \in 1..((Len(word) + max_length - 1) \div max_length) |->
        Slice(word, (k - 1) * max_length, k * max_length)]

\* the loop body of _split_by_words from word i on, current_chunk given
RECURSIVE words_loop(_, _, _, _)
words_loop(words, i, current_chunk, max_length) ==
    IF i > Len(words) THEN Flush(current_chunk)
    ELSE LET word == words[i]
         IN  IF Len(current_chunk) + Len(word) + 1 <= max_length
             THEN words_loop(words, i + 1,
                             IF current_chunk # <<>>
                             THEN current_chunk \o <<" ">> \o word ELSE word,
                             max_length)
             ELSE Flush(current_chunk)
                  \o (IF Len(word) > max_length
                      THEN HardSlices(word, max_length)
                           \o words_loop(words, i + 1, <<>>, max_length)
                      ELSE words_loop(words, i + 1, word, max_length))

_split_by_words(text, max_length) ==
    NonBlank(words_loop(split_ws(text), 1, <<>>, max_length))

\* the inner loop of _split_long_sentence over the parts of one chunk
RECURSIVE parts_loop(_, _, _, _, _)
parts_loop(parts, i, current_part, delimiter, max_length) ==
    IF i > Len(parts) THEN IfAny(current_part)
    ELSE LET part == parts[i]
         IN  IF Len(current_part) + Len(delimiter) + Len(part) <= max_length
             THEN parts_loop(parts, i + 1,
                             current_part
                               \o (IF current_part # <<>> THEN delimiter ELSE <<>>)
                               \o part,
                             delimiter, max_length)
             ELSE IfAny(current_part)
                  \o parts_loop(parts, i + 1, part, delimiter, max_length)

\* one pass of the delimiter loop: every chunk longer than max_length is
\* split at the delimiter and its parts are packed again
split_at_delimiter(chunks, delimiter, max_length) ==
    Flatten([k \in 1..Len(chunks) |->
        IF Len(chunks[k]) <= max_length THEN <<chunks[k]>>
        ELSE parts_loop(str_split(chunks[k], delimiter), 1, <<>>, delimiter,
                        max_length)])

RECURSIVE delimiters_loop(_, _, _, _)
delimiters_loop(chunks, delimiters, k, max_length) ==
    IF k > Len(delimiters) THEN chunks
    ELSE delimiters_loop(split_at_delimiter(chunks, delimiters[k], max_length),
                         delimiters, k + 1, max_length)

long_sentence_delimiters ==
    << <<",", " ">>, <<";", " ">>, <<" ", "-", " ">>, <<" ", "EMDASH", " ">>,
       <<":", " ">>, <<" ", "a", "n", "d", " ">>, <<" ", "o", "r", " ">>,
       <<" ", "b", "u", "t", " ">> >>

_split_long_sentence(sentence, max_length) ==
    LET chunks == delimiters_loop(<<sentence>>, long_sentence_delimiters, 1,
                                  max_length)
        final_chunks ==
            Flatten([k \in 1..Len(chunks) |->
                IF Len(chunks[k]) <= max_length THEN <<chunks[k]>>
                ELSE _split_by_words(chunks[k], max_length)])
    IN  StripNonBlank(final_chunks)

RECURSIVE sentences_loop(_, _, _, _)
sentences_loop(sentences, i, current_chunk, max_length) ==
    IF i > Len(sentences) THEN Flush(current_chunk)
    ELSE LET sentence == strip(sentences[i])
         IN  IF sentence = <<>>
             THEN sentences_loop(sentences, i + 1, current_chunk, max_length)
             ELSE IF Len(current_chunk) + Len(sentence) + 1 <= max_length
             THEN sentences_loop(sentences, i + 1,
                                 IF current_chunk # <<>>
                                 THEN current_chunk \o <<" ">> \o sentence
                                 ELSE sentence,
                                 max_length)
             ELSE Flush(current_chunk)
                  \o (IF Len(sentence) > max_length
                      THEN _split_long_sentence(sentence, max_length)
                           \o sentences_loop(sentences, i + 1, <<>>, max_length)
                      ELSE sentences_loop(sentences, i + 1, sentence, max_length))

\* a slip of _split_by_sentences: every sentence is a chunk of its own
_split_by_sentences_unpacked(text, max_length) ==
    LET sentences == StripNonBlank(re_split_sentences(strip(text)))
    IN  NonBlank(Flatten([k \in 1..Len(sentences) |->
            IF Len(sentences[k]) > max_length
            THEN _split_long_sentence(sentences[k], max_length)
            ELSE <<sentences[k]>>]))

_split_by_sentences(text, max_length) ==
    NonBlank(sentences_loop(re_split_sentences(strip(text)), 1, <<>>, max_length))

RECURSIVE paragraphs_loop(_, _, _, _)
paragraphs_loop(paragraphs, i, current_chunk, max_length) ==
    IF i > Len(paragraphs) THEN Flush(current_chunk)
    ELSE LET paragraph == strip(paragraphs[i])
         IN  IF paragraph = <<>>
             THEN paragraphs_loop(paragraphs, i + 1, current_chunk, max_length)
             ELSE IF Len(current_chunk) + Len(paragraph) + 2 <= max_length
             THEN paragraphs_loop(paragraphs, i + 1,
                                  IF current_chunk # <<>>
                                  THEN current_chunk \o <<"\n", "\n">> \o paragraph
                                  ELSE paragraph,
                                  max_length)
             ELSE Flush(current_chunk)
                  \o (IF Len(paragraph) > max_length
                      THEN _split_by_sentences(paragraph, max_length)
                           \o paragraphs_loop(paragraphs, i + 1, <<>>, max_length)
                      ELSE paragraphs_loop(paragraphs, i + 1, paragraph, max_length))

_split_by_paragraphs(text, max_length) ==
    NonBlank(paragraphs_loop(re_split_paragraphs(strip(text)), 1, <<>>, max_length))

\* the fixed-size slicing with every slice one character wider than the step
_split_by_fixed_size_overlapping(text, chunk_size) ==
    LET n == (Len(text) + chunk_size - 1) \div chunk_size
        pieces == [k \in 1..n |->
                      Slice(text, (k - 1) * chunk_size, k * chunk_size + 1)]
    IN  Flatten([k \in 1..n |-> IfAny(strip(pieces[k]))])

_split_by_fixed_size(text, chunk_size) ==
    LET pieces == HardSlices(text, chunk_size)
    IN  Flatten([k \in 1..Len(pieces) |-> IfAny(strip(pieces[k]))])

\* Python truth value of an Optional[int] and of an Optional[str] argument
TruthyInt(v) == v # NoInt /\ v # 0

TruthyStr(v) == v # None /\ v # ""

\* a or b
OrInt(a, b) == IF TruthyInt(a) THEN a ELSE b

OrStr(a, b) == IF TruthyStr(a) THEN a ELSE b

\* split_text_for_streaming, from "Apply quality presets" to "Set defaults":
\* the chunk_size and the strategy the splitting is then made with
streaming_presets(chunk_size, strategy, quality) ==
    LET size1 == IF ~TruthyStr(quality) THEN chunk_size
                 ELSE IF quality = "fast" THEN OrInt(chunk_size, 100)
                 ELSE IF quality = "balanced" THEN OrInt(chunk_size, 200)
                 ELSE IF quality = "high" THEN OrInt(chunk_size, 300)
                 ELSE chunk_size
        strat1 == IF ~TruthyStr(quality) THEN strategy
                  ELSE IF quality = "fast" THEN OrStr(strategy, "word")
                  ELSE IF quality = "balanced" THEN OrStr(strategy, "sentence")
                  ELSE IF quality = "high" THEN OrStr(strategy, "paragraph")
                  ELSE strategy
    IN  [chunk_size |-> OrInt(size1, 200), strategy |-> OrStr(strat1, "sentence")]

split_text_for_streaming(text, chunk_size, strategy, quality) ==
    LET size == streaming_presets(chunk_size, strategy, quality).chunk_size
        strat == streaming_presets(chunk_size, strategy, quality).strategy
    IN  IF strat = "paragraph" THEN _split_by_paragraphs(text, size)
        ELSE IF strat = "sentence" THEN _split_by_sentences(text, size)
        ELSE IF strat = "word" THEN _split_by_words(text, size)
        ELSE IF strat = "fixed" THEN _split_by_fixed_size(text, size)
        ELSE _split_by_sentences(text, size)

sentence_endings ==
    << <<".", " ">>, <<"!", " ">>, <<"?", " ">>,
       <<".", "\n">>, <<"!", "\n">>, <<"?", "\n">> >>

\* the for loop over sentence_endings: best_split after endings k..
RECURSIVE endings_loop(_, _, _)
endings_loop(temp_text, k, best_split) ==
    IF k > Len(sentence_endings) THEN best_split
    ELSE LET pos == find(temp_text, sentence_endings[k])
         IN  endings_loop(temp_text, k + 1,
                          IF pos # -1 /\ pos < best_split
                          THEN pos + Len(sentence_endings[k]) ELSE best_split)

\* the while loop that cuts the text into sentences
RECURSIVE find_sentences(_)
find_sentences(temp_text) ==
    IF temp_text = <<>> THEN <<>>
    ELSE LET best_split == endings_loop(temp_text, 1, Len(temp_text))
         IN  IF best_split = Len(temp_text) THEN <<temp_text>>
             ELSE <<Slice(temp_text, 0, best_split)>>
                  \o find_sentences(From(temp_text, best_split))

chunk_sub_delimiters ==
    << <<",", " ">>, <<";", " ">>, <<" ", "-", " ">>, <<" ", "EMDASH", " ">> >>

\* the "last resort: split by words" loop of split_text_into_chunks
RECURSIVE word_chunk_loop(_, _, _, _)
word_chunk_loop(words, i, current_word_chunk, max_length) ==
    IF i > Len(words) THEN IfAny(current_word_chunk)
    ELSE LET word == words[i]
         IN  IF Len(current_word_chunk) + Len(word) + 1 <= max_length
             THEN word_chunk_loop(words, i + 1,
                                  current_word_chunk
                                    \o (IF current_word_chunk # <<>> THEN <<" ">> ELSE <<>>)
                                    \o word,
                                  max_length)
             ELSE IfAny(current_word_chunk)
                  \o word_chunk_loop(words, i + 1, word, max_length)

\* what split_text_into_chunks appends for one sentence longer than max_length
split_oversize_sentence(sentence, max_length) ==
    LET sub_chunks == delimiters_loop(<<sentence>>, chunk_sub_delimiters, 1,
                                      max_length)
    IN  Flatten([k \in 1..Len(sub_chunks) |->
            IF Len(sub_chunks[k]) <= max_length THEN <<strip(sub_chunks[k])>>
            ELSE word_chunk_loop(split_ws(sub_chunks[k]), 1, <<>>, max_length)])

\* the "group sentences into chunks" loop of split_text_into_chunks
RECURSIVE group_loop(_, _, _, _)
group_loop(sentences, i, current_chunk, max_length) ==
    IF i > Len(sentences) THEN Flush(current_chunk)
    ELSE LET sentence == strip(sentences[i])
         IN  IF sentence = <<>>
             THEN group_loop(sentences, i + 1, current_chunk, max_length)
             ELSE IF Len(current_chunk) + Len(sentence) <= max_length
             THEN group_loop(sentences, i + 1,
                             current_chunk
                               \o (IF current_chunk # <<>> THEN <<" ">> ELSE <<>>)
                               \o sentence,
                             max_length)
             ELSE Flush(current_chunk)
                  \o (IF Len(sentence) > max_length
                      THEN split_oversize_sentence(sentence, max_length)
                           \o group_loop(sentences, i + 1, <<>>, max_length)
                      ELSE group_loop(sentences, i + 1, sentence, max_length))

\* a slip of split_text_into_chunks: no early return for a short text
split_text_into_chunks_no_early_return(text, max_length) ==
    NonBlank(group_loop(find_sentences(text), 1, <<>>, max_length))

split_text_into_chunks(text, max_length) ==
    IF Len(text) <= max_length THEN <<text>>
    ELSE NonBlank(group_loop(find_sentences(text), 1, <<>>, max_length))

(***************************************************************************)
(* The segmentation functions applied to bounded inputs.                    *)
(***************************************************************************)
VARIABLES sp_text, sp_size, sp_fn, sp_strategy, sp_chunks, sp_pc

splitvars == <<sp_text, sp_size, sp_fn, sp_strategy, sp_chunks, sp_pc>>

\* the pieces input texts are built from: words, blanks, a sentence end, two
\* clause delimiters, a paragraph break, a line break
Tokens ==
    << <<"a">>, <<"b", "b">>, <<" ">>, <<".", " ">>, <<",", " ">>,
       <<" ", "o", "r", " ">>, <<"\n", "\n">>, <<"\n">> >>

Texts ==
    {Flatten([k \in 1..Len(ts) |-> Tokens[ts[k]]]) :
        ts \in UNION {[1..n -> 1..Len(Tokens)] : n \in 1..MaxTokens}}

Strategies == {"sentence", "paragraph", "word", "fixed"}

SplitInit ==
    /\ sp_text \in Texts
    /\ sp_size \in 1..MaxL
    /\ sp_fn = None
    /\ sp_strategy = None
    /\ sp_chunks = <<>>
    /\ sp_pc = "input"

\* chunks = split_text_into_chunks(text, max_length)
call_split_text_into_chunks ==
    /\ sp_pc = "input"
    /\ sp_fn' = "split_text_into_chunks"
    /\ sp_chunks' = split_text_into_chunks(sp_text, sp_size)
    /\ sp_pc' = "done"
    /\ UNCHANGED <<sp_text, sp_size, sp_strategy>>

\* chunks = split_text_for_streaming(text, chunk_size, strategy)
call_split_text_for_streaming(strategy) ==
    /\ sp_pc = "input"
    /\ sp_fn' = "split_text_for_streaming"
    /\ sp_strategy' = strategy
    /\ sp_chunks' = split_text_for_streaming(sp_text, sp_size, strategy, None)
    /\ sp_pc' = "done"
    /\ UNCHANGED <<sp_text, sp_size>>

(***************************************************************************)
(* app/core/status.py: TTSStatusManager.                                    *)
(* The manager's state is the record                                        *)
(*   [current_request, request_history, total_requests];                    *)
(* current_request is <<>> for None and <<record>> for a live record.       *)
(* Times are abstracted: end_time and estimated_completion are None or      *)
(* "set".  A memory sample is "{}" (the empty dict) or a sample name.       *)
(***************************************************************************)
VARIABLES current_request, request_history, total_requests

\* self._lock (threading.RLock): the thread that holds it, or None
VARIABLE _lock

mgrvars == <<current_request, request_history, total_requests, _lock>>

\* observer of the manager's interface: the ids of the requests whose live
\* record took a COMPLETED or ERROR update since the history was last
\* cleared, oldest first
VARIABLE finalized

\* the manager as one value
Mgr ==
    [current_request |-> current_request,
     request_history |-> request_history,
     total_requests |-> total_requests]

\* TTSStatus
TTSStatus ==
    {"idle", "initializing", "processing_text", "chunking", "generating_audio",
     "concatenating", "finalizing", "completed", "error"}

\* self._max_history
_max_history == 10

\* TTSProgressInfo() and TTSRequestInfo(...) as start_request builds them
TTSProgressInfo ==
    [current_chunk |-> 0, total_chunks |-> 0, current_step |-> "",
     estimated_completion |-> None]

TTSRequestInfo(request_id, text_length, voice_source, parameters) ==
    [request_id |-> request_id,
     status |-> "initializing",
     end_time |-> None,
     text_length |-> text_length,
     voice_source |-> voice_source,
     parameters |-> parameters,
     progress |-> TTSProgressInfo,
     error_message |-> None,
     memory_usage |-> "{}"]

\* a slip of progress_percentage: the share of the chunks still to do
progress_percentage_remaining(progress) ==
    IF progress.total_chunks = 0 THEN <<0, 1>>
    ELSE <<(progress.total_chunks - progress.current_chunk) * 100,
           progress.total_chunks>>

\* TTSProgressInfo.progress_percentage as the exact fraction <<num, den>>
progress_percentage(progress) ==
    IF progress.total_chunks = 0 THEN <<0, 1>>
    ELSE <<progress.current_chunk * 100, progress.total_chunks>>

\* TTSStatusManager.__init__
NewManager ==
    [current_request |-> <<>>, request_history |-> <<>>, total_requests |-> 0]

\* a slip of start_request: a record that is live is left in place
start_request_keeps_live(m, request_id, text, voice_source, parameters) ==
    [m EXCEPT
        !.current_request =
            IF m.current_request # <<>> THEN m.current_request
            ELSE <<TTSRequestInfo(request_id, Len(text), voice_source, parameters)>>,
        !.total_requests = m.total_requests + 1]

\* start_request; request_id is the value uuid4 gives, distinct per call
start_request(m, request_id, text, voice_source, parameters) ==
    [m EXCEPT
        !.current_request =
            <<TTSRequestInfo(request_id, Len(text), voice_source, parameters)>>,
        !.total_requests = m.total_requests + 1]

\* a slip of _finalize_request: the trim keeps the oldest records
_finalize_request_keep_oldest(m) ==
    IF m.current_request # <<>>
    THEN LET appended == Append(m.request_history, m.current_request[1])
         IN  [m EXCEPT
                !.request_history =
                    IF Len(appended) > _max_history
                    THEN SubSeq(appended, 1, _max_history)
                    ELSE appended,
                !.current_request = <<>>]
    ELSE m

\* a slip of _finalize_request: the record is appended to the history and
\* stays in the live slot
_finalize_request_leaves_live(m) ==
    IF m.current_request # <<>>
    THEN LET appended == Append(m.request_history, m.current_request[1])
             n == Len(appended)
         IN  [m EXCEPT
                !.request_history =
                    IF n > _max_history
                    THEN SubSeq(appended, n - _max_history + 1, n)
                    ELSE appended]
    ELSE m

\* _finalize_request
_finalize_request(m) ==
    IF m.current_request # <<>>
    THEN LET appended == Append(m.request_history, m.current_request[1])
             n == Len(appended)
         IN  [m EXCEPT
                !.request_history =
                    IF n > _max_history
                    THEN SubSeq(appended, n - _max_history + 1, n)
                    ELSE appended,
                !.current_request = <<>>]
    ELSE m

\* a slip of update_status: only COMPLETED finalizes the record
apply_update_error_stays_live(m, status, current_step, current_chunk, total_chunks, memory_usage, error_message) ==
    LET r0 == m.current_request[1]
        r1 == [r0 EXCEPT
                   !.status = status,
                   !.error_message =
                       IF TruthyStr(error_message) THEN error_message ELSE @]
    IN  IF status = "completed"
        THEN _finalize_request(
                [m EXCEPT !.current_request = <<[r1 EXCEPT !.end_time = "set"]>>])
        ELSE [m EXCEPT !.current_request = <<r1>>]

\* a slip of update_status: an update without current_chunk writes the
\* default 0
apply_update_resets_chunk(m, status, current_step, current_chunk, total_chunks, memory_usage, error_message) ==
    LET r0 == m.current_request[1]
        p1 == IF current_step # ""
              THEN [r0.progress EXCEPT !.current_step = current_step]
              ELSE r0.progress
        p2 == [p1 EXCEPT !.current_chunk =
                             IF current_chunk # NoInt THEN current_chunk ELSE 0]
        p3 == IF total_chunks # NoInt
              THEN [p2 EXCEPT
                       !.total_chunks = total_chunks,
                       !.estimated_completion =
                           IF TruthyInt(current_chunk) /\ current_chunk > 0
                           THEN "set" ELSE @]
              ELSE p2
        r1 == [r0 EXCEPT
                   !.status = status,
                   !.progress = p3,
                   !.memory_usage =
                       IF memory_usage # None /\ memory_usage # "{}"
                       THEN memory_usage ELSE @,
                   !.error_message =
                       IF TruthyStr(error_message) THEN error_message ELSE @]
    IN  IF status \in {"completed", "error"}
        THEN _finalize_request(
                [m EXCEPT !.current_request = <<[r1 EXCEPT !.end_time = "set"]>>])
        ELSE [m EXCEPT !.current_request = <<r1>>]

\* update_status once the request id has matched the live record
apply_update(m, status, current_step, current_chunk, total_chunks, memory_usage, error_message) ==
    LET r0 == m.current_request[1]
        p1 == IF current_step # ""
              THEN [r0.progress EXCEPT !.current_step = current_step]
              ELSE r0.progress
        p2 == IF current_chunk # NoInt
              THEN [p1 EXCEPT !.current_chunk = current_chunk] ELSE p1
        p3 == IF total_chunks # NoInt
              THEN [p2 EXCEPT
                       !.total_chunks = total_chunks,
                       !.estimated_completion =
                           IF TruthyInt(current_chunk) /\ current_chunk > 0
                           THEN "set" ELSE @]
              ELSE p2
        r1 == [r0 EXCEPT
                   !.status = status,
                   !.progress = p3,
                   !.memory_usage =
                       IF memory_usage # None /\ memory_usage # "{}"
                       THEN memory_usage ELSE @,
                   !.error_message =
                       IF TruthyStr(error_message) THEN error_message ELSE @]
    IN  IF status \in {"completed", "error"}
        THEN _finalize_request(
                [m EXCEPT !.current_request = <<[r1 EXCEPT !.end_time = "set"]>>])
        ELSE [m EXCEPT !.current_request = <<r1>>]

\* a slip of update_status: the request id is not compared
update_status_any_id(m, request_id, status, current_step, current_chunk, total_chunks, memory_usage, error_message) ==
    IF m.current_request = <<>>
    THEN m
    ELSE apply_update(m, status, current_step, current_chunk, total_chunks,
                      memory_usage, error_message)

\* update_status
\* a slip of update_status: an update whose id is not the live one is written
\* to the record of that id in the history
update_status_reaches_history(m, request_id, status, current_step, current_chunk, total_chunks, memory_usage, error_message) ==
    IF m.current_request = <<>> \/ m.current_request[1].request_id # request_id
    THEN [m EXCEPT !.request_history =
             [j \in 1..Len(m.request_history) |->
                 IF m.request_history[j].request_id = request_id
                 THEN [m.request_history[j] EXCEPT !.status = status]
                 ELSE m.request_history[j]]]
    ELSE apply_update(m, status, current_step, current_chunk, total_chunks,
                      memory_usage, error_message)

update_status(m, request_id, status, current_step, current_chunk, total_chunks, memory_usage, error_message) ==
    IF m.current_request = <<>> \/ m.current_request[1].request_id # request_id
    THEN m
    ELSE apply_update(m, status, current_step, current_chunk, total_chunks,
                      memory_usage, error_message)

\* get_request_history(limit): the records of request_history[-limit:],
\* most recent first
get_request_history(m, limit) ==
    LET h == m.request_history
        n == Len(h)
        \* h[-limit:]: -0 is 0, so limit = 0 takes the whole list
        tail == IF limit = 0 \/ limit >= n THEN h ELSE SubSeq(h, n - limit + 1, n)
    IN  [i \in 1..Len(tail) |-> tail[Len(tail) + 1 - i]]

\* get_current_status: the IDLE answer, or the live record as a dictionary
\* with the computed fields
get_current_status(m) ==
    IF m.current_request = <<>>
    THEN [status |-> "idle", is_processing |-> FALSE,
          total_requests |-> m.total_requests, message |-> "No active requests"]
    ELSE LET r == m.current_request[1]
         IN  [request_id |-> r.request_id,
              status |-> r.status,
              end_time |-> r.end_time,
              text_length |-> r.text_length,
              voice_source |-> r.voice_source,
              parameters |-> r.parameters,
              progress |-> [current_chunk |-> r.progress.current_chunk,
                            total_chunks |-> r.progress.total_chunks,
                            current_step |-> r.progress.current_step,
                            estimated_completion |-> r.progress.estimated_completion,
                            progress_percentage |-> progress_percentage(r.progress)],
              error_message |-> r.error_message,
              memory_usage |-> r.memory_usage,
              is_active |-> r.status \notin {"completed", "error", "idle"},
              is_processing |-> TRUE,
              total_requests |-> m.total_requests]

\* sum(...) of a list of numbers
SumOf(numbers) ==
    LET sum[i \in 0..Len(numbers)] == IF i = 0 THEN 0 ELSE sum[i - 1] + numbers[i]
    IN  sum[Len(numbers)]

\* [r.duration_seconds for r in requests] and [r.text_length for r in requests]
DurationsOf(requests, duration_seconds) ==
    [i \in 1..Len(requests) |-> duration_seconds[requests[i].request_id]]

TextLengthsOf(requests) == [i \in 1..Len(requests) |-> requests[i].text_length]

\* a slip of get_statistics: the averages are taken over all the records
get_statistics_of_all_records(m, duration_seconds) ==
    LET completed_requests ==
            SelectSeq(m.request_history, LAMBDA r : r.status = "completed")
        error_requests ==
            SelectSeq(m.request_history, LAMBDA r : r.status = "error")
        n == Len(m.request_history)
    IN  [total_requests |-> m.total_requests,
         completed_requests |-> Len(completed_requests),
         error_requests |-> Len(error_requests),
         success_rate |->
             <<Len(completed_requests) * 100,
               IF Len(completed_requests) + Len(error_requests) > 1
               THEN Len(completed_requests) + Len(error_requests) ELSE 1>>,
         average_duration_seconds |->
             IF n > 0 THEN <<SumOf(DurationsOf(m.request_history, duration_seconds)), n>> ELSE <<0, 1>>,
         average_text_length |->
             IF n > 0 THEN <<SumOf(TextLengthsOf(m.request_history)), n>> ELSE <<0, 1>>,
         is_processing |-> m.current_request # <<>>]

\* get_statistics; duration_seconds[id] is what the duration_seconds property
\* of the record of request id gives (end_time - start_time); the rates and
\* averages are exact fractions <<num, den>>
get_statistics(m, duration_seconds) ==
    LET completed_requests ==
            SelectSeq(m.request_history, LAMBDA r : r.status = "completed")
        error_requests ==
            SelectSeq(m.request_history, LAMBDA r : r.status = "error")
        n == Len(completed_requests)
    IN  [total_requests |-> m.total_requests,
         completed_requests |-> Len(completed_requests),
         error_requests |-> Len(error_requests),
         success_rate |->
             <<Len(completed_requests) * 100,
               IF Len(completed_requests) + Len(error_requests) > 1
               THEN Len(completed_requests) + Len(error_requests) ELSE 1>>,
         average_duration_seconds |->
             IF n > 0 THEN <<SumOf(DurationsOf(completed_requests, duration_seconds)), n>> ELSE <<0, 1>>,
         average_text_length |->
             IF n > 0 THEN <<SumOf(TextLengthsOf(completed_requests)), n>> ELSE <<0, 1>>,
         is_processing |-> m.current_request # <<>>]

\* clear_history
clear_history(m) == [m EXCEPT !.request_history = <<>>]

\* a slip of get_streaming_settings: the preset of a given quality replaces
\* a chunk size that was given
get_streaming_settings_preset_wins(streaming_chunk_size, streaming_strategy, streaming_quality) ==
    LET size0 == OrInt(streaming_chunk_size, 200)
        strat0 == OrStr(streaming_strategy, "sentence")
        size == IF TruthyStr(streaming_quality)
                THEN IF streaming_quality = "fast" THEN 100
                     ELSE IF streaming_quality = "high" THEN 300 ELSE size0
                ELSE size0
        strat == IF TruthyStr(streaming_quality) /\ ~TruthyStr(streaming_strategy)
                 THEN IF streaming_quality = "fast" THEN "word"
                      ELSE IF streaming_quality = "high" THEN "paragraph" ELSE strat0
                 ELSE strat0
    IN  [chunk_size |-> size, strategy |-> strat,
         quality |-> OrStr(streaming_quality, "balanced")]

\* get_streaming_settings
get_streaming_settings(streaming_chunk_size, streaming_strategy, streaming_quality) ==
    LET size0 == OrInt(streaming_chunk_size, 200)
        strat0 == OrStr(streaming_strategy, "sentence")
        size == IF TruthyStr(streaming_quality) /\ ~TruthyInt(streaming_chunk_size)
                THEN IF streaming_quality = "fast" THEN 100
                     ELSE IF streaming_quality = "high" THEN 300 ELSE size0
                ELSE size0
        strat == IF TruthyStr(streaming_quality) /\ ~TruthyStr(streaming_strategy)
                 THEN IF streaming_quality = "fast" THEN "word"
                      ELSE IF streaming_quality = "high" THEN "paragraph" ELSE strat0
                 ELSE strat0
    IN  [chunk_size |-> size, strategy |-> strat,
         quality |-> OrStr(streaming_quality, "balanced")]

(***************************************************************************)
(* app/core/text_processing.py: concatenate_audio_chunks.                   *)
(* An audio tensor of shape (1, L) is the sequence of its L samples; the     *)
(* samples of the silence are 0, torch.cat along dim 1 is \o.               *)
(***************************************************************************)
MaxAudioChunks == 3
MaxSamples == 2
MaxSampleRate == 16

\* int(0.1 * sample_rate): the float product, truncated toward zero
silence_samples(sample_rate) == sample_rate \div 10

\* torch.zeros(1, n)
zeros(n) == [k \in 1..n |-> 0]

\* a slip of concatenate_audio_chunks: the silence follows every chunk, the
\* last one too
concatenate_audio_chunks_trailing_silence(audio_chunks, sample_rate) ==
    LET silence == zeros(silence_samples(sample_rate))
        concatenated[i \in 1..Len(audio_chunks)] ==
            IF i = 1 THEN audio_chunks[1] \o silence
            ELSE concatenated[i - 1] \o audio_chunks[i] \o silence
    IN  concatenated[Len(audio_chunks)]

concatenate_audio_chunks(audio_chunks, sample_rate) ==
    IF Len(audio_chunks) = 1 THEN audio_chunks[1]
    ELSE LET silence == zeros(silence_samples(sample_rate))
             concatenated[i \in 1..Len(audio_chunks)] ==
                 IF i = 1 THEN audio_chunks[1]
                 ELSE concatenated[i - 1] \o silence \o audio_chunks[i]
         IN  concatenated[Len(audio_chunks)]

(***************************************************************************)
(* The functions concatenate_audio_chunks and get_streaming_settings, and   *)
(* the preset resolution of split_text_for_streaming, applied to inputs.    *)
(***************************************************************************)
VARIABLES fn_args, fn_name, fn_result, fn_pc

fnvars == <<fn_args, fn_name, fn_result, fn_pc>>

\* the audio_chunks lists: 1..MaxAudioChunks tensors of 0..MaxSamples samples
\* each; every sample of the j-th tensor is j
AudioChunkLists ==
    UNION {{[j \in 1..n |-> [k \in 1..lens[j] |-> j]] :
               lens \in [1..n -> 0..MaxSamples]} : n \in 1..MaxAudioChunks}

\* streaming_chunk_size: absent, or within the ge=50, le=500 of the request
ChunkSizeArgs == {NoInt, 50, 100, 200, 300, 500}

\* streaming_strategy: absent, an empty form field, or an allowed strategy
StrategyArgs == {None, ""} \cup Strategies

\* streaming_quality: absent, an empty form field, or an allowed quality
QualityArgs == {None, "", "fast", "balanced", "high"}

FnInit ==
    /\ fn_args \in
         {[family |-> "audio", audio_chunks |-> a, sample_rate |-> sr] :
             a \in AudioChunkLists, sr \in 1..MaxSampleRate}
         \cup
         {[family |-> "settings", chunk_size |-> c, strategy |-> st, quality |-> q] :
             c \in ChunkSizeArgs, st \in StrategyArgs, q \in QualityArgs}
    /\ fn_name = None
    /\ fn_result = None
    /\ fn_pc = "input"

FnIdle ==
    /\ fn_args = None
    /\ fn_name = None
    /\ fn_result = None
    /\ fn_pc = "off"

\* final_audio = concatenate_audio_chunks(audio_chunks, model.sr)
call_concatenate_audio_chunks ==
    /\ fn_pc = "input"
    /\ fn_args.family = "audio"
    /\ fn_name' = "concatenate_audio_chunks"
    /\ fn_result' = concatenate_audio_chunks(fn_args.audio_chunks, fn_args.sample_rate)
    /\ fn_pc' = "done"
    /\ UNCHANGED fn_args

\* streaming_settings = get_streaming_settings(chunk_size, strategy, quality)
call_get_streaming_settings ==
    /\ fn_pc = "input"
    /\ fn_args.family = "settings"
    /\ fn_name' = "get_streaming_settings"
    /\ fn_result' = get_streaming_settings(fn_args.chunk_size, fn_args.strategy, fn_args.quality)
    /\ fn_pc' = "done"
    /\ UNCHANGED fn_args

\* split_text_for_streaming(text, chunk_size, strategy, quality) up to the
\* choice of the splitting function: the chunk_size and strategy it has then
call_split_text_for_streaming_presets ==
    /\ fn_pc = "input"
    /\ fn_args.family = "settings"
    /\ fn_name' = "split_text_for_streaming"
    /\ fn_result' = streaming_presets(fn_args.chunk_size, fn_args.strategy, fn_args.quality)
    /\ fn_pc' = "done"
    /\ UNCHANGED fn_args

(***************************************************************************)
(* app/api/endpoints/speech.py: the buffered and the streaming pipeline.    *)
(* The handlers are coroutines of one event loop: a handler runs without    *)
(* interruption from one suspension point (the await of an inference call,  *)
(* a yield of the generator) to the next, so each action below is the code  *)
(* between two suspension points, given as the list of the calls it makes   *)
(* to the status manager.  Request r is the r-th request started; r also    *)
(* stands for the request id uuid4 gives it.                                *)
(***************************************************************************)
VARIABLES REQUEST_COUNTER, model_loaded, req

\* observer of the pipelines: for each request, the status and progress of
\* its record after each of its update_tts_status calls that found the
\* record live, in call order
VARIABLE updates_seen

pipevars == <<REQUEST_COUNTER, model_loaded, req, updates_seen>>

\* REQUEST_COUNTER of app/api/endpoints/memory.py, a module global of its
\* own, apart from the REQUEST_COUNTER of app/api/endpoints/speech.py above
VARIABLE memory_REQUEST_COUNTER

\* observer of the memory endpoint: the answers GET /memory has given, each
\* with the number of speech requests that had been served when it was given
VARIABLE memory_seen

memvars == <<memory_REQUEST_COUNTER, memory_seen>>

\* Config.VOICE_SAMPLE_PATH, which set_default_voice and clear_default_voice
\* assign at run time
VARIABLE VOICE_SAMPLE_PATH

\* VoiceLibrary: _metadata["voices"], a dict kept here as the sequence of its
\* entries [name, path, aliases] in insertion order; _config["default_voice"]
\* as _config; and the voice files that exist in the library directory
VARIABLES _metadata, _config, library_files

confvars == <<VOICE_SAMPLE_PATH, _metadata, _config, library_files>>

vars == <<splitvars, fnvars, mgrvars, finalized, pipevars, memvars, confvars>>

Requests == 1..MaxRequests

\* Config.ENABLE_MEMORY_MONITORING (default 'true')
ENABLE_MEMORY_MONITORING == TRUE

\* k sentences "bb." joined by single blanks
RECURSIVE Sentences(_)
Sentences(k) ==
    IF k = 1 THEN <<"b", "b", ".">>
    ELSE Sentences(k - 1) \o <<" ", "b", "b", ".">>

\* a text longer than MAX_TOTAL_LENGTH
TooLong == Sentences(MAX_TOTAL_LENGTH \div 4 + 2)

\* the input texts of the requests: one sentence, the most sentences, and a
\* text over the limit
ReqTexts == {Sentences(1), Sentences(MaxSentences), TooLong}

\* (streaming_chunk_size, streaming_strategy, streaming_quality) of a request
StreamingParams ==
    {[chunk_size |-> NoInt, strategy |-> None, quality |-> None],
     [chunk_size |-> StreamChunkSize, strategy |-> "sentence", quality |-> None]}

\* Config.EXAGGERATION, Config.CFG_WEIGHT and Config.TEMPERATURE, read from
\* the environment when the module is loaded and never assigned afterwards
EXAGGERATION == "Config.EXAGGERATION"
CFG_WEIGHT == "Config.CFG_WEIGHT"
TEMPERATURE == "Config.TEMPERATURE"

\* os.getenv('VOICE_SAMPLE_PATH', './voice-sample.mp3')
SystemVoicePath == "./voice-sample.mp3"

\* a request that has not arrived; exaggeration, cfg_weight and temperature
\* are what the request gives (None: not given), generate_calls the
\* arguments model.generate has been called with for it, in call order
NewRequest ==
    [pc |-> "new", mode |-> None, chunks |-> <<>>, i |-> 0, audio_chunks |-> 0,
     emitted |-> <<>>, response |-> None, stream_format |-> "audio",
     text_length |-> 0, model |-> None, cleanup |-> FALSE,
     exaggeration |-> None, cfg_weight |-> None, temperature |-> None,
     voice_sample_path |-> None, generate_calls |-> <<>>]

\* request r as its pipeline is entered: the length of its text and the
\* model that get_model() returns to it
Arrived(r, text, mode) ==
    [req[r] EXCEPT !.mode = mode, !.text_length = Len(text),
                   !.model = IF model_loaded THEN "model" ELSE None,
                   !.voice_sample_path = VOICE_SAMPLE_PATH]

\* a slip of the manager's methods: the lock is not released on return
WithLock_kept(thread) ==
    /\ _lock \in {None, thread}
    /\ _lock' = thread

\* with self._lock: ... in a method the thread calls: the thread takes the
\* lock if it is free or its own, and on leaving the block the lock is as
\* it was
WithLock(thread) ==
    /\ _lock \in {None, thread}
    /\ _lock' = _lock

\* the manager's methods, all called on the thread of the event loop, have
\* made the manager m
SetMgr(m) ==
    /\ WithLock("event_loop")
    /\ current_request' = m.current_request
    /\ request_history' = m.request_history
    /\ total_requests' = m.total_requests

\* a call start_tts_request(text=, voice_source=, parameters=)
StartCall(r, text, parameters) ==
    [op |-> "start", request_id |-> r, text |-> text, parameters |-> parameters,
     status |-> None, current_step |-> "", current_chunk |-> NoInt,
     total_chunks |-> NoInt, memory_usage |-> None, error_message |-> None]

\* a call update_tts_status(request_id, status, current_step, current_chunk,
\* total_chunks, memory_usage, error_message)
UpdateCall(r, status, current_step, current_chunk, total_chunks, memory_usage, error_message) ==
    [op |-> "update", request_id |-> r, text |-> <<>>, parameters |-> None,
     status |-> status, current_step |-> current_step,
     current_chunk |-> current_chunk, total_chunks |-> total_chunks,
     memory_usage |-> memory_usage, error_message |-> error_message]

StepCall(r, status, current_step) ==
    UpdateCall(r, status, current_step, NoInt, NoInt, None, None)

ErrorCall(r, error_message) ==
    UpdateCall(r, "error", "", NoInt, NoInt, None, error_message)

\* a slip of the per-chunk update: the 0-based index of the chunk is reported
ProgressCall_index(r, current_step, current_chunk, total_chunks) ==
    UpdateCall(r, "generating_audio", current_step, current_chunk - 1,
               total_chunks, None, None)

ProgressCall(r, current_step, current_chunk, total_chunks) ==
    UpdateCall(r, "generating_audio", current_step, current_chunk, total_chunks,
               None, None)

\* the manager after one call
ApplyCall(m, c) ==
    IF c.op = "start"
    THEN start_request(m, c.request_id, c.text, "default", c.parameters)
    ELSE update_status(m, c.request_id, c.status, c.current_step, c.current_chunk,
                       c.total_chunks, c.memory_usage, c.error_message)

\* the record of request r after an update of it: the live record, or the
\* record the update has just moved to the history
RecordAfter(m, r) ==
    IF m.current_request # <<>> /\ m.current_request[1].request_id = r
    THEN m.current_request[1]
    ELSE m.request_history[Len(m.request_history)]

\* the manager after calls[k..], and what the observer sees of them
RECURSIVE RunCalls(_, _, _)
RunCalls(m, calls, k) ==
    IF k > Len(calls) THEN [m |-> m, seen |-> <<>>]
    ELSE LET c == calls[k]
             live == /\ c.op = "update"
                     /\ m.current_request # <<>>
                     /\ m.current_request[1].request_id = c.request_id
             m1 == ApplyCall(m, c)
             rest == RunCalls(m1, calls, k + 1)
             rec == RecordAfter(m1, c.request_id)
         IN  [m |-> rest.m,
              seen |-> (IF live
                        THEN <<[status |-> rec.status, progress |-> rec.progress]>>
                        ELSE <<>>) \o rest.seen]

\* a slip of the inference call: the voice sample is the one configured at
\* the time of the call
GenerateArgs_configured_now(q) ==
    [audio_prompt_path |-> VOICE_SAMPLE_PATH,
     exaggeration |-> IF q.exaggeration # None THEN q.exaggeration ELSE EXAGGERATION,
     cfg_weight |-> IF q.cfg_weight # None THEN q.cfg_weight ELSE CFG_WEIGHT,
     temperature |-> IF q.temperature # None THEN q.temperature ELSE TEMPERATURE]

\* the keyword arguments of model.generate for a chunk of the request with
\* fields q, but the chunk's text: the locals voice_sample_path,
\* exaggeration, cfg_weight and temperature, the last three given by the
\* request or else taken from Config
GenerateArgs(q) ==
    [audio_prompt_path |-> q.voice_sample_path,
     exaggeration |-> IF q.exaggeration # None THEN q.exaggeration ELSE EXAGGERATION,
     cfg_weight |-> IF q.cfg_weight # None THEN q.cfg_weight ELSE CFG_WEIGHT,
     temperature |-> IF q.temperature # None THEN q.temperature ELSE TEMPERATURE]

\* the calls of request r take effect, and r's own state becomes fields; a
\* segment that ends in the next inference call (i grows) hands the call its
\* arguments
Segment(r, calls, fields) ==
    LET run == RunCalls(Mgr, calls, 1)
    IN  /\ SetMgr(run.m)
        /\ updates_seen' = [updates_seen EXCEPT ![r] = @ \o run.seen]
        /\ req' = [req EXCEPT ![r] =
                      IF fields.i > req[r].i
                      THEN [fields EXCEPT !.generate_calls =
                                              Append(@, GenerateArgs(fields))]
                      ELSE fields]

\* a slip of the admission: the text length is not checked
Admission_no_length_check(r, text, mode, suffix) ==
    LET begin == <<StartCall(r, text, mode),
                   StepCall(r, "initializing",
                            "Checking model availability" \o suffix)>>
        monitor == IF ENABLE_MEMORY_MONITORING
                   THEN <<UpdateCall(r, "initializing",
                                     "Monitoring initial memory" \o suffix,
                                     NoInt, NoInt, "sample", None)>>
                   ELSE <<>>
        validate == <<StepCall(r, "processing_text", "Validating text length")>>
    IN  IF ~model_loaded
        THEN [calls |-> begin \o <<ErrorCall(r, "Model not loaded")>>,
              error |-> "model_error"]
        ELSE [calls |-> begin \o monitor \o validate, error |-> None]

\* the code shared by both pipelines from start_tts_request to the text
\* length check: its calls, and the error raised or None
Admission(r, text, mode, suffix) ==
    LET begin == <<StartCall(r, text, mode),
                   StepCall(r, "initializing",
                            "Checking model availability" \o suffix)>>
        monitor == IF ENABLE_MEMORY_MONITORING
                   THEN <<UpdateCall(r, "initializing",
                                     "Monitoring initial memory" \o suffix,
                                     NoInt, NoInt, "sample", None)>>
                   ELSE <<>>
        validate == <<StepCall(r, "processing_text", "Validating text length")>>
    IN  IF ~model_loaded
        THEN [calls |-> begin \o <<ErrorCall(r, "Model not loaded")>>,
              error |-> "model_error"]
        ELSE IF Len(text) > MAX_TOTAL_LENGTH
        THEN [calls |-> begin \o monitor \o validate
                        \o <<ErrorCall(r, "Input text too long")>>,
              error |-> "invalid_request_error"]
        ELSE [calls |-> begin \o monitor \o validate, error |-> None]

\* generate_speech_internal from its entry to the first await (or its exit)
generate_speech_internal(r, text) ==
    /\ r = total_requests + 1
    /\ req[r].pc = "new"
    /\ REQUEST_COUNTER' = REQUEST_COUNTER + 1
    /\ LET a == Admission(r, text, "buffered", "")
           chunks == split_text_into_chunks(text, MAX_CHUNK_LENGTH)
           split == <<StepCall(r, "chunking", "Splitting text into chunks"),
                      ProgressCall(r, "Starting audio generation", 0, Len(chunks))>>
       IN  IF a.error # None
           THEN Segment(r, a.calls,
                        [Arrived(r, text, "buffered") EXCEPT !.pc = "raised",
                                           !.response = a.error])
           ELSE IF chunks = <<>>
           THEN \* audio_chunks[0] raises IndexError, caught by except Exception
                Segment(r, a.calls \o split
                           \o <<ErrorCall(r, "TTS generation failed")>>,
                        [Arrived(r, text, "buffered") EXCEPT !.pc = "raised", !.cleanup = TRUE,
                                           !.response = "generation_error"])
           ELSE Segment(r, a.calls \o split
                           \o <<ProgressCall(r, "Generating audio for chunk", 1,
                                             Len(chunks))>>,
                        [Arrived(r, text, "buffered") EXCEPT !.pc = "inference",
                                           !.chunks = chunks, !.i = 1])
    /\ UNCHANGED model_loaded

\* a slip of the end of the buffered pipeline: FINALIZING is written before
\* CONCATENATING
buffered_inference_returns_finalizes_first(r) ==
    /\ req[r].pc = "inference"
    /\ req[r].mode = "buffered"
    /\ LET n == Len(req[r].chunks)
           i == req[r].i
       IN  IF i < n
           THEN Segment(r, <<ProgressCall(r, "Generating audio for chunk", i + 1, n)>>,
                        [req[r] EXCEPT !.i = i + 1, !.audio_chunks = @ + 1])
           ELSE Segment(r,
                        <<StepCall(r, "finalizing", "Converting to WAV format")>>
                        \o (IF n > 1
                            THEN <<StepCall(r, "concatenating",
                                            "Concatenating audio chunks")>>
                            ELSE <<>>)
                        \o <<StepCall(r, "completed", "Audio generation completed")>>,
                        [req[r] EXCEPT !.pc = "returned", !.audio_chunks = @ + 1,
                                       !.response = "buffer", !.cleanup = TRUE])
    /\ UNCHANGED <<REQUEST_COUNTER, model_loaded>>

\* the inference call of chunk i of a buffered request returns: the code up
\* to the next await, or to the return of the buffer
buffered_inference_returns(r) ==
    /\ req[r].pc = "inference"
    /\ req[r].mode = "buffered"
    /\ LET n == Len(req[r].chunks)
           i == req[r].i
       IN  IF i < n
           THEN Segment(r, <<ProgressCall(r, "Generating audio for chunk", i + 1, n)>>,
                        [req[r] EXCEPT !.i = i + 1, !.audio_chunks = @ + 1])
           ELSE Segment(r,
                        (IF n > 1
                         THEN <<StepCall(r, "concatenating",
                                         "Concatenating audio chunks")>>
                         ELSE <<>>)
                        \o <<StepCall(r, "finalizing", "Converting to WAV format"),
                             StepCall(r, "completed", "Audio generation completed")>>,
                        [req[r] EXCEPT !.pc = "returned", !.audio_chunks = @ + 1,
                                       !.response = "buffer", !.cleanup = TRUE])
    /\ UNCHANGED <<REQUEST_COUNTER, model_loaded>>

\* the inference call of chunk i of a buffered request raises
buffered_inference_raises(r) ==
    /\ req[r].pc = "inference"
    /\ req[r].mode = "buffered"
    /\ Segment(r, <<ErrorCall(r, "TTS generation failed")>>,
               [req[r] EXCEPT !.pc = "raised", !.response = "generation_error",
                              !.cleanup = TRUE])
    /\ UNCHANGED <<REQUEST_COUNTER, model_loaded>>

\* generate_speech_streaming from the first __anext__ to the yield of the
\* WAV header (or to the error raised before it)
generate_speech_streaming(r, text, params) ==
    /\ r = total_requests + 1
    /\ req[r].pc = "new"
    /\ REQUEST_COUNTER' = REQUEST_COUNTER + 1
    /\ LET a == Admission(r, text, "streaming", " (streaming)")
           streaming_settings ==
               get_streaming_settings(params.chunk_size, params.strategy,
                                      params.quality)
           chunks == split_text_for_streaming(text, streaming_settings.chunk_size,
                                              streaming_settings.strategy,
                                              streaming_settings.quality)
       IN  IF a.error # None
           THEN Segment(r, a.calls,
                        [Arrived(r, text, "streaming") EXCEPT !.pc = "raised",
                                           !.response = a.error])
           ELSE Segment(r, a.calls
                           \o <<StepCall(r, "chunking", "Splitting text for streaming"),
                                ProgressCall(r, "Starting streaming audio generation",
                                             0, Len(chunks))>>,
                        [Arrived(r, text, "streaming") EXCEPT
                                           !.pc = "yield_header",
                                           !.chunks = chunks,
                                           !.emitted = <<"wav_header">>])
    /\ UNCHANGED model_loaded

\* a slip of the chunk loop: it stops one chunk early
StreamNextChunk_stops_early(r, i) ==
    LET n == Len(req[r].chunks)
    IN  IF i < n - 1
        THEN Segment(r, <<ProgressCall(r, "Streaming audio for chunk", i + 1, n)>>,
                     [req[r] EXCEPT !.pc = "inference", !.i = i + 1])
        ELSE Segment(r, <<StepCall(r, "completed",
                                   "Streaming audio generation completed")>>,
                     [req[r] EXCEPT !.pc = "ended", !.response = "stream_end",
                                    !.cleanup = TRUE])

\* a slip of the chunk loop: the loop passes over a chunk
StreamNextChunk_skips(r, i) ==
    LET n == Len(req[r].chunks)
    IN  IF i + 1 < n
        THEN Segment(r, <<ProgressCall(r, "Streaming audio for chunk", i + 2, n)>>,
                     [req[r] EXCEPT !.pc = "inference", !.i = i + 2])
        ELSE Segment(r, <<StepCall(r, "completed",
                                   "Streaming audio generation completed")>>,
                     [req[r] EXCEPT !.pc = "ended", !.response = "stream_end",
                                    !.cleanup = TRUE])

\* the top of the for loop of generate_speech_streaming for the chunk after
\* chunk i: the next inference call, or the end of the generator
StreamNextChunk(r, i) ==
    LET n == Len(req[r].chunks)
    IN  IF i < n
        THEN Segment(r, <<ProgressCall(r, "Streaming audio for chunk", i + 1, n)>>,
                     [req[r] EXCEPT !.pc = "inference", !.i = i + 1])
        ELSE Segment(r, <<StepCall(r, "completed",
                                   "Streaming audio generation completed")>>,
                     [req[r] EXCEPT !.pc = "ended", !.response = "stream_end",
                                    !.cleanup = TRUE])

\* the consumer takes the next item after the WAV header
streaming_after_header(r) ==
    /\ req[r].pc = "yield_header"
    /\ StreamNextChunk(r, 0)
    /\ UNCHANGED <<REQUEST_COUNTER, model_loaded>>

\* a slip of the chunk loop: the audio data is kept and the loop goes on to
\* the next inference call
streaming_inference_returns_unsent(r) ==
    /\ req[r].pc = "inference"
    /\ req[r].mode = "streaming"
    /\ StreamNextChunk(r, req[r].i)
    /\ UNCHANGED <<REQUEST_COUNTER, model_loaded>>

\* the inference call of chunk i of a streaming request returns: its raw
\* audio data is yielded
streaming_inference_returns(r) ==
    /\ req[r].pc = "inference"
    /\ req[r].mode = "streaming"
    /\ Segment(r, <<>>, [req[r] EXCEPT !.pc = "yield_chunk",
                                       !.audio_chunks = @ + 1,
                                       !.emitted = Append(@, req[r].i)])
    /\ UNCHANGED <<REQUEST_COUNTER, model_loaded>>

\* the inference call of chunk i of a streaming request raises
streaming_inference_raises(r) ==
    /\ req[r].pc = "inference"
    /\ req[r].mode = "streaming"
    /\ Segment(r, <<ErrorCall(r, "TTS streaming failed")>>,
               [req[r] EXCEPT !.pc = "raised", !.response = "generation_error",
                              !.cleanup = TRUE])
    /\ UNCHANGED <<REQUEST_COUNTER, model_loaded>>

\* the consumer takes the next item after the audio data of chunk i
streaming_after_chunk(r) ==
    /\ req[r].pc = "yield_chunk"
    /\ StreamNextChunk(r, req[r].i)
    /\ UNCHANGED <<REQUEST_COUNTER, model_loaded>>

\* a slip of the closing of the stream: the record is marked ERROR as for a
\* failed inference call
streaming_closed_marks_error(r) ==
    /\ req[r].mode = "streaming"
    /\ req[r].pc \in {"yield_header", "yield_chunk"}
    /\ Segment(r, <<ErrorCall(r, "TTS streaming failed")>>,
               [req[r] EXCEPT !.pc = "closed", !.response = "closed",
                              !.cleanup = TRUE])
    /\ UNCHANGED <<REQUEST_COUNTER, model_loaded>>

\* the consumer closes the stream after the WAV header or after the audio
\* data of chunk i: GeneratorExit is raised at the yield, which the
\* except Exception clause does not catch; the finally block runs
streaming_closed(r) ==
    /\ req[r].mode = "streaming"
    /\ req[r].pc \in {"yield_header", "yield_chunk"}
    /\ Segment(r, <<>>, [req[r] EXCEPT !.pc = "closed", !.response = "closed",
                                       !.cleanup = TRUE])
    /\ UNCHANGED <<REQUEST_COUNTER, model_loaded>>

\* app/core/tts_model.py: initialize_model, started in the background by the
\* application's lifespan, sets the global _model
initialize_model ==
    /\ ~model_loaded
    /\ model_loaded' = TRUE
    /\ UNCHANGED <<mgrvars, REQUEST_COUNTER, req, updates_seen>>

\* the segmentation specification's variables while the pipelines run
SplitIdle ==
    /\ sp_text = <<>>
    /\ sp_size = 0
    /\ sp_fn = None
    /\ sp_strategy = None
    /\ sp_chunks = <<>>
    /\ sp_pc = "off"

(***************************************************************************)
(* The voice library (app/core/voice_library.py).  A voice name is a        *)
(* string; every voice file has the same extension, so the file of voice    *)
(* name is library_dir / name.                                              *)
(***************************************************************************)
\* the names and aliases the callers use
VoiceNames == {"a", "b", "x"}

\* self.library_dir / f"{voice_name}{file_ext}"
VoicePathOf(voice_name) == "voices/" \o voice_name

\* the position of voice_name among the entries, 0 if it has no entry
EntryOf(voices, voice_name) ==
    IF \E k \in 1..Len(voices) : voices[k].name = voice_name
    THEN CHOOSE k \in 1..Len(voices) : voices[k].name = voice_name
    ELSE 0

\* voice_name in self._metadata["voices"]
HasVoice(voices, voice_name) == EntryOf(voices, voice_name) # 0

\* del self._metadata["voices"][voice_name]
WithoutVoice(voices, voice_name) ==
    SelectSeq(voices, LAMBDA e : e.name # voice_name)

\* alias in aliases
InList(list, item) == \E k \in 1..Len(list) : list[k] = item

\* _get_voice_by_alias: the first voice, in the order of the dict, that has
\* the alias; None if no voice has it
_get_voice_by_alias(voices, alias) ==
    LET hits == {k \in 1..Len(voices) : InList(voices[k].aliases, alias)}
    IN  IF hits = {} THEN None
        ELSE voices[CHOOSE k \in hits : \A j \in hits : k <= j].name

\* resolve_voice_name
resolve_voice_name(voices, name_or_alias) ==
    IF HasVoice(voices, name_or_alias) THEN name_or_alias
    ELSE _get_voice_by_alias(voices, name_or_alias)

\* get_voice_path of a name that has an entry: the path, or None after the
\* entry of a missing file has been dropped; [path, voices]
PathOfEntry(voices, files, voice_name) ==
    LET path == voices[EntryOf(voices, voice_name)].path
    IN  IF path \in files THEN [path |-> path, voices |-> voices]
        ELSE [path |-> None, voices |-> WithoutVoice(voices, voice_name)]

\* get_voice_path: by name, then by alias; [path, voices]
get_voice_path(voices, files, voice_name) ==
    IF HasVoice(voices, voice_name) THEN PathOfEntry(voices, files, voice_name)
    ELSE LET actual_name == _get_voice_by_alias(voices, voice_name)
         IN  IF actual_name # None THEN PathOfEntry(voices, files, actual_name)
             ELSE [path |-> None, voices |-> voices]

\* VoiceLibrary() with no voices.json and no config.json in the directory
LibraryInit ==
    /\ _metadata = <<>>
    /\ _config = [default_voice |-> None, default_voice_path |-> None]
    /\ library_files = {}

\* set_default_voice(voice_name)
set_default_voice(voice_name) ==
    LET found == get_voice_path(_metadata, library_files, voice_name)
    IN  /\ _metadata' = found.voices
        /\ IF found.path = None
           THEN UNCHANGED <<_config, VOICE_SAMPLE_PATH>>
           ELSE /\ _config' = [default_voice |-> voice_name,
                               default_voice_path |-> found.path]
                /\ VOICE_SAMPLE_PATH' = found.path
        /\ UNCHANGED library_files

\* clear_default_voice()
clear_default_voice ==
    /\ _config' = [default_voice |-> None, default_voice_path |-> None]
    /\ VOICE_SAMPLE_PATH' = SystemVoicePath
    /\ UNCHANGED <<_metadata, library_files>>

\* add_voice(voice_name, file_content, original_filename) with a valid name
\* and a supported extension: FileExistsError for a name that is a voice or
\* an alias; otherwise the file is written and the entry added
add_voice(voice_name) ==
    IF HasVoice(_metadata, voice_name)
           \/ _get_voice_by_alias(_metadata, voice_name) # None
    THEN UNCHANGED <<_metadata, library_files>>
    ELSE /\ library_files' = library_files \cup {VoicePathOf(voice_name)}
         /\ _metadata' = Append(_metadata,
                                [name |-> voice_name,
                                 path |-> VoicePathOf(voice_name),
                                 aliases |-> <<>>])

\* delete_voice(voice_name): the file is unlinked unless unlink raises
\* OSError; the entry is removed in both cases
delete_voice(voice_name, unlinked) ==
    IF ~HasVoice(_metadata, voice_name)
    THEN UNCHANGED <<_metadata, library_files>>
    ELSE LET path == _metadata[EntryOf(_metadata, voice_name)].path
         IN  /\ library_files' = IF unlinked THEN library_files \ {path}
                                  ELSE library_files
             /\ _metadata' = WithoutVoice(_metadata, voice_name)

\* rename_voice(old_name, new_name) with a valid new name: False for an
\* unknown old name, FileExistsError for a new name that is a voice,
\* ValueError when the file cannot be renamed; otherwise the entry, with its
\* aliases, is stored under the new name and the old key deleted
rename_voice(old_name, new_name, renamed) ==
    IF ~HasVoice(_metadata, old_name) \/ HasVoice(_metadata, new_name)
    THEN UNCHANGED <<_metadata, library_files>>
    ELSE LET metadata == _metadata[EntryOf(_metadata, old_name)]
             exists == metadata.path \in library_files
         IN  IF exists /\ ~renamed
             THEN UNCHANGED <<_metadata, library_files>>
             ELSE /\ library_files' =
                        IF exists
                        THEN (library_files \ {metadata.path})
                                 \cup {VoicePathOf(new_name)}
                        ELSE library_files
                  /\ _metadata' =
                        Append(WithoutVoice(_metadata, old_name),
                               [metadata EXCEPT !.name = new_name,
                                                !.path = VoicePathOf(new_name)])

\* add_alias(voice_name, alias) with a valid alias: False for an unknown
\* voice, FileExistsError for an alias that is a voice name or an alias of
\* another voice, True with no change for an alias the voice has
add_alias(voice_name, alias) ==
    /\ UNCHANGED library_files
    /\ IF \/ ~HasVoice(_metadata, voice_name)
          \/ HasVoice(_metadata, alias)
          \/ _get_voice_by_alias(_metadata, alias) # None
       THEN UNCHANGED _metadata
       ELSE _metadata' = [_metadata EXCEPT
                             ![EntryOf(_metadata, voice_name)].aliases =
                                 Append(@, alias)]

\* remove_alias(voice_name, alias)
remove_alias(voice_name, alias) ==
    /\ UNCHANGED library_files
    /\ IF ~HasVoice(_metadata, voice_name)
       THEN UNCHANGED _metadata
       ELSE _metadata' = [_metadata EXCEPT
                             ![EntryOf(_metadata, voice_name)].aliases =
                                 SelectSeq(@, LAMBDA a : a # alias)]

\* the pipelines' and the manager's variables after construction
ServerInit ==
    /\ _lock = None
    /\ current_request = NewManager.current_request
    /\ request_history = NewManager.request_history
    /\ total_requests = NewManager.total_requests
    /\ REQUEST_COUNTER = 0
    /\ model_loaded = FALSE
    /\ req = [r \in Requests |-> NewRequest]
    /\ finalized = <<>>
    /\ updates_seen = [r \in Requests |-> <<>>]
    /\ memory_REQUEST_COUNTER = 0
    /\ memory_seen = <<>>
    /\ VOICE_SAMPLE_PATH = SystemVoicePath
    /\ LibraryInit

Init == SplitIdle /\ FnIdle /\ ServerInit

Next ==
    \/ initialize_model /\ UNCHANGED <<splitvars, fnvars, finalized, memvars, confvars>>
    \/ \E r \in Requests, text \in ReqTexts :
         generate_speech_internal(r, text) /\ UNCHANGED <<splitvars, fnvars, finalized, memvars, confvars>>
    \/ \E r \in Requests : buffered_inference_returns(r) /\ UNCHANGED <<splitvars, fnvars, finalized, memvars, confvars>>
    \/ \E r \in Requests : buffered_inference_raises(r) /\ UNCHANGED <<splitvars, fnvars, finalized, memvars, confvars>>
    \/ \E r \in Requests, text \in ReqTexts, params \in StreamingParams :
         generate_speech_streaming(r, text, params) /\ UNCHANGED <<splitvars, fnvars, finalized, memvars, confvars>>
    \/ \E r \in Requests : streaming_after_header(r) /\ UNCHANGED <<splitvars, fnvars, finalized, memvars, confvars>>
    \/ \E r \in Requests : streaming_inference_returns(r) /\ UNCHANGED <<splitvars, fnvars, finalized, memvars, confvars>>
    \/ \E r \in Requests : streaming_inference_raises(r) /\ UNCHANGED <<splitvars, fnvars, finalized, memvars, confvars>>
    \/ \E r \in Requests : streaming_after_chunk(r) /\ UNCHANGED <<splitvars, fnvars, finalized, memvars, confvars>>
    \/ \E r \in Requests : streaming_closed(r) /\ UNCHANGED <<splitvars, fnvars, finalized, memvars, confvars>>

\* the buffered and streaming pipelines over the shared status manager
Spec == Init /\ [][Next]_vars

\* TTSRequest.stream_format: 'audio' (the default) or 'sse'
StreamFormats == {"audio", "sse"}

\* as ServerInit, with the stream_format each request will carry
FormatInit ==
    /\ _lock = None
    /\ current_request = NewManager.current_request
    /\ request_history = NewManager.request_history
    /\ total_requests = NewManager.total_requests
    /\ REQUEST_COUNTER = 0
    /\ model_loaded = FALSE
    /\ req \in {[r \in Requests |-> [NewRequest EXCEPT !.stream_format = f[r]]] :
                   f \in [Requests -> StreamFormats]}
    /\ finalized = <<>>
    /\ updates_seen = [r \in Requests |-> <<>>]
    /\ memory_REQUEST_COUNTER = 0
    /\ memory_seen = <<>>
    /\ VOICE_SAMPLE_PATH = SystemVoicePath
    /\ LibraryInit

InitFormat == SplitIdle /\ FnIdle /\ FormatInit

\* the pipelines serving requests of either stream_format
SpecFormat == InitFormat /\ [][Next]_vars

InitSplit == SplitInit /\ FnIdle /\ ServerInit

NextSplit ==
    \/ call_split_text_into_chunks /\ UNCHANGED <<fnvars, mgrvars, finalized, pipevars, memvars, confvars>>
    \/ \E strategy \in Strategies :
         call_split_text_for_streaming(strategy) /\ UNCHANGED <<fnvars, mgrvars, finalized, pipevars, memvars, confvars>>

\* the segmentation functions applied to every bounded input
SpecSplit == InitSplit /\ [][NextSplit]_vars

InitFunctions == SplitIdle /\ FnInit /\ ServerInit

NextFunctions ==
    \/ call_concatenate_audio_chunks /\ UNCHANGED <<splitvars, mgrvars, finalized, pipevars, memvars, confvars>>
    \/ call_get_streaming_settings /\ UNCHANGED <<splitvars, mgrvars, finalized, pipevars, memvars, confvars>>
    \/ call_split_text_for_streaming_presets /\ UNCHANGED <<splitvars, mgrvars, finalized, pipevars, memvars, confvars>>

\* the audio concatenation and the streaming settings on every bounded input
SpecFunctions == InitFunctions /\ [][NextFunctions]_vars

(***************************************************************************)
(* The manager's public functions called directly, in any order.            *)
(***************************************************************************)
\* the statuses and error messages the direct calls pass
CallStatuses == {"generating_audio", "completed", "error"}

\* the request ids the direct calls pass: the id of the last request started
\* and the one before it (the live id, if any, and an id that is not live)
CallIds == {id \in 1..total_requests : id + 1 >= total_requests}

\* the live record is the record of request_id
IsLive(request_id) ==
    current_request # <<>> /\ current_request[1].request_id = request_id

\* start_tts_request(text)
start_tts_request ==
    /\ total_requests < MaxStarts
    /\ SetMgr(start_request(Mgr, total_requests + 1, Sentences(1), "default",
                            "buffered"))
    /\ UNCHANGED finalized

\* update_tts_status(request_id, status, error_message=...)
update_tts_status(request_id, status) ==
    /\ SetMgr(update_status(Mgr, request_id, status, "", NoInt, NoInt, None,
                            IF status = "error" THEN "failed" ELSE None))
    /\ finalized' = IF IsLive(request_id) /\ status \in {"completed", "error"}
                    THEN Append(finalized, request_id) ELSE finalized

\* clear_tts_history()
clear_tts_history ==
    /\ SetMgr(clear_history(Mgr))
    /\ finalized' = <<>>

NextCalls ==
    \/ start_tts_request /\ UNCHANGED <<splitvars, fnvars, pipevars, memvars, confvars>>
    \/ \E request_id \in CallIds, status \in CallStatuses :
         update_tts_status(request_id, status) /\ UNCHANGED <<splitvars, fnvars, pipevars, memvars, confvars>>
    \/ clear_tts_history /\ UNCHANGED <<splitvars, fnvars, pipevars, memvars, confvars>>

\* the status manager under arbitrary sequences of start, update and clear
SpecCalls == Init /\ [][NextCalls]_vars

\* clients that wait for the answer before the next request, but for the
\* first MaxRequests requests, which may overlap; and clear_history at any
\* time
NextQueries ==
    \/ /\ current_request = <<>> \/ total_requests < MaxRequests
       /\ start_tts_request
       /\ UNCHANGED <<splitvars, fnvars, pipevars, memvars, confvars>>
    \/ \E status \in {"completed", "error"} :
         /\ current_request # <<>>
         /\ update_tts_status(current_request[1].request_id, status)
         /\ UNCHANGED <<splitvars, fnvars, pipevars, memvars, confvars>>
    \/ clear_tts_history /\ UNCHANGED <<splitvars, fnvars, pipevars, memvars, confvars>>

\* the manager's states the queries are examined in
SpecQueries == Init /\ [][NextQueries]_vars

(***************************************************************************)
(* The memory endpoints (app/api/endpoints/memory.py) beside the speech     *)
(* pipelines.  get_memory_info() and the alerts depend on the machine and   *)
(* are left out of the answer; cleanup_memory() may raise.                  *)
(***************************************************************************)
\* the number of GET /memory answers the observer keeps
MaxReadings == 2

\* the speech requests that have been answered in full
SpeechServed == Cardinality({r \in Requests : req[r].pc \in {"returned", "ended"}})

\* GET /memory?cleanup=...
memory_management(cleanup) ==
    /\ Len(memory_seen) < MaxReadings
    /\ \E cleanup_performed \in (IF cleanup THEN BOOLEAN ELSE {FALSE}) :
         memory_seen' = Append(memory_seen,
                           [request_counter |-> memory_REQUEST_COUNTER,
                            cleanup_performed |-> cleanup_performed,
                            served |-> SpeechServed])
    /\ UNCHANGED memory_REQUEST_COUNTER

\* POST /memory/reset?confirm=...
reset_memory_tracking(confirm) ==
    /\ memory_REQUEST_COUNTER' = IF confirm THEN 0 ELSE memory_REQUEST_COUNTER
    /\ UNCHANGED memory_seen

NextMemory ==
    \/ Next
    \/ \E cleanup \in BOOLEAN :
         memory_management(cleanup) /\ UNCHANGED <<splitvars, fnvars, mgrvars, finalized, pipevars, confvars>>
    \/ \E confirm \in BOOLEAN :
         reset_memory_tracking(confirm) /\ UNCHANGED <<splitvars, fnvars, mgrvars, finalized, pipevars, confvars>>

\* the speech pipelines with a client reading the memory endpoint
SpecMemory == Init /\ [][NextMemory]_vars

(***************************************************************************)
(* Properties of the segmentation functions (under SpecSplit).              *)
(***************************************************************************)
\* the characters of s that are not whitespace, in order
NonSpace(s) == SelectSeq(s, LAMBDA c : ~IsSpace(c))

\* s has no whitespace or punctuation
Solid(s) == \A i \in 1..Len(s) : s[i] \in {"a", "b"}

\* the only whitespace of s is single blanks between other characters
PlainSpaced(s) ==
    \A i \in 1..Len(s) :
        IsSpace(s[i]) => /\ s[i] = " "
                         /\ 1 < i /\ i < Len(s)
                         /\ ~IsSpace(s[i - 1]) /\ ~IsSpace(s[i + 1])

StreamingDone == sp_pc = "done" /\ sp_fn = "split_text_for_streaming"

BufferedDone == sp_pc = "done" /\ sp_fn = "split_text_into_chunks"

\* C5: for every strategy, every chunk split_text_for_streaming returns for
\* a non-empty text and a chunk size L > 0 is non-empty and at most L long
C5_StreamingChunksBounded ==
    StreamingDone =>
        \A k \in 1..Len(sp_chunks) :
            1 <= Len(sp_chunks[k]) /\ Len(sp_chunks[k]) <= sp_size

\* C5's case: an oversize word of a sentence has been cut into slices
C5_Witness ==
    /\ StreamingDone
    /\ sp_strategy = "sentence"
    /\ Len(sp_chunks) >= 3
    /\ \E k \in 1..Len(sp_chunks) : Len(sp_chunks[k]) = sp_size
    /\ \E w \in 1..Len(split_ws(sp_text)) : Len(split_ws(sp_text)[w]) > sp_size

\* C6: the chunks split_text_for_streaming returns keep the text's
\* non-whitespace characters, all of them and in order
C6_ChunksReconstructText ==
    StreamingDone => NonSpace(Flatten(sp_chunks)) = NonSpace(sp_text)

\* C7: every chunk split_text_into_chunks returns for a non-empty text and
\* L > 0 is non-empty and at most L long
C7_BufferedChunksBounded ==
    BufferedDone =>
        \A k \in 1..Len(sp_chunks) :
            1 <= Len(sp_chunks[k]) /\ Len(sp_chunks[k]) <= sp_size

\* C8: a text longer than L with no whitespace or punctuation is cut by
\* character slicing, by either function and every strategy: every fragment
\* is at most L long and the fragments put together are the text
C8_SolidUnitHardSliced ==
    (sp_pc = "done" /\ Solid(sp_text) /\ Len(sp_text) > sp_size) =>
        /\ \A k \in 1..Len(sp_chunks) : Len(sp_chunks[k]) <= sp_size
        /\ Flatten(sp_chunks) = sp_text

\* C9 as stated: for either function and every strategy, a non-empty text
\* no longer than L is returned as the one chunk, unchanged
C9_ShortTextReturnedUnchanged ==
    (sp_pc = "done" /\ Len(sp_text) <= sp_size) => sp_chunks = <<sp_text>>

\* C9: for a non-empty text no longer than L, split_text_into_chunks returns
\* the text as the one chunk; split_text_for_streaming returns nothing for a
\* text of whitespace only and otherwise one chunk, which has the text's
\* non-whitespace characters, is no longer than the text, and is the text
\* when its only whitespace is single blanks between words
C9_ShortTextSingleChunk ==
    (sp_pc = "done" /\ Len(sp_text) <= sp_size) =>
        IF sp_fn = "split_text_into_chunks"
        THEN sp_chunks = <<sp_text>>
        ELSE IF strip(sp_text) = <<>>
        THEN sp_chunks = <<>>
        ELSE /\ Len(sp_chunks) = 1
             /\ NonSpace(sp_chunks[1]) = NonSpace(sp_text)
             /\ Len(sp_chunks[1]) <= Len(sp_text)
             /\ PlainSpaced(sp_text) => sp_chunks[1] = sp_text

\* C9's case: a short text of several words whose chunk is not the text
C9_Witness ==
    /\ StreamingDone
    /\ Len(sp_text) <= sp_size
    /\ Len(split_ws(sp_text)) >= 2
    /\ Len(sp_chunks) = 1
    /\ sp_chunks[1] # sp_text

(***************************************************************************)
(* Properties of the status manager and the pipelines.                      *)
(***************************************************************************)
\* the optional arguments update_status is tried with: all defaulted, the
\* arguments of a progress update, and every argument given
UpdateArgs ==
    {[current_step |-> "", current_chunk |-> NoInt, total_chunks |-> NoInt,
      memory_usage |-> None, error_message |-> None],
     [current_step |-> "Generating audio for chunk", current_chunk |-> 1,
      total_chunks |-> 2, memory_usage |-> None, error_message |-> None],
     [current_step |-> "Generating audio for chunk", current_chunk |-> 0,
      total_chunks |-> 1, memory_usage |-> "sample",
      error_message |-> "TTS generation failed"]}

\* the record of request r is in the history
Archived(r) ==
    \E j \in 1..Len(request_history) : request_history[j].request_id = r

\* request r has left its pipeline
Over(r) == req[r].pc \in {"returned", "raised", "ended", "closed"}

\* C1: update_status with a request id that is not the live record's (or
\* with no live record) changes nothing of the manager, whatever the status
\* and the other arguments
C1_MismatchedUpdateIsNoOp ==
    LET m == Mgr
    IN  \A request_id \in 0..(total_requests + 1) :
            ~IsLive(request_id) =>
                \A status \in TTSStatus, a \in UpdateArgs :
                    update_status(m, request_id, status, a.current_step,
                                  a.current_chunk, a.total_chunks, a.memory_usage,
                                  a.error_message) = m

\* C1's case: a request has made its last update while the record of a
\* later request was live, and the update has left no trace
C1_Witness ==
    \E r \in Requests :
        /\ req[r].pc = "returned"
        /\ ~Archived(r)
        /\ current_request # <<>>
        /\ current_request[1].request_id # r
        /\ current_request[1].status = "generating_audio"

\* C2: every request that has left its pipeline, overlapped by another or
\* not, has its own record in the history
C2_EachRequestArchived ==
    \A r \in Requests : (Over(r) /\ total_requests <= _max_history) => Archived(r)

\* C3: a buffered request whose inference call of chunk k has failed made
\* no later inference call, and its record is in the history as ERROR with
\* the message and never as COMPLETED; it does not return the buffer
C3_FailedInferenceArchivedAsError ==
    \A r \in Requests :
        (/\ req[r].mode = "buffered"
         /\ req[r].pc = "raised"
         /\ req[r].response = "generation_error"
         /\ req[r].chunks # <<>>) =>
            /\ req[r].audio_chunks = req[r].i - 1
            /\ \E j \in 1..Len(request_history) :
                 /\ request_history[j].request_id = r
                 /\ request_history[j].status = "error"
                 /\ request_history[j].error_message = "TTS generation failed"
                 /\ request_history[j].end_time = "set"
            /\ \A j \in 1..Len(request_history) :
                 request_history[j].request_id = r =>
                     request_history[j].status # "completed"

\* a/b <= c/d for fractions <<a, b>> and <<c, d>> with b, d > 0
FractionLeq(x, y) == x[1] * y[2] <= y[1] * x[2]

\* C10: over the successive updates the pipelines apply to a request's
\* record, progress_percentage never decreases; it is 0 while total_chunks
\* is 0 and 100 when current_chunk equals a positive total_chunks
C10_ProgressMonotone ==
    \A r \in Requests :
        LET seen == updates_seen[r]
        IN  /\ \A k \in 1..(Len(seen) - 1) :
                 FractionLeq(progress_percentage(seen[k].progress),
                             progress_percentage(seen[k + 1].progress))
            /\ \A k \in 1..Len(seen) :
                 LET p == seen[k].progress
                     pct == progress_percentage(p)
                 IN  /\ p.total_chunks = 0 => pct[1] = 0
                     /\ (p.total_chunks > 0 /\ p.current_chunk = p.total_chunks)
                            => pct[1] = 100 * pct[2]

\* C10's case: a request of several chunks has been updated from no chunk
\* done through a part of them to all of them
C10_Witness ==
    \E r \in Requests :
        \E k1, k2, k3 \in 1..Len(updates_seen[r]) :
            /\ k1 < k2 /\ k2 < k3
            /\ updates_seen[r][k1].progress.total_chunks >= 2
            /\ updates_seen[r][k1].progress.current_chunk = 0
            /\ updates_seen[r][k2].progress.current_chunk = 1
            /\ updates_seen[r][k3].progress.current_chunk
                   = updates_seen[r][k3].progress.total_chunks

\* C4: the history never holds more than _max_history records, and
\* get_request_history returns the records of the min(k, _max_history) most
\* recently finalized of the k requests finalized, the most recent first
C4_HistoryKeepsMostRecent ==
    /\ Len(request_history) <= _max_history
    /\ LET k == Len(finalized)
           kept == IF k < _max_history THEN k ELSE _max_history
           history == get_request_history(Mgr, _max_history)
       IN  /\ Len(history) = kept
           /\ \A j \in 1..kept : history[j].request_id = finalized[k + 1 - j]

\* C4's case: one request more than the capacity has been finalized and the
\* oldest record is gone
C4_Witness ==
    /\ Len(finalized) = _max_history + 1
    /\ Len(request_history) = _max_history
    /\ \A j \in 1..Len(request_history) :
         request_history[j].request_id # finalized[1]

(***************************************************************************)
(* Properties of the raw stream.                                            *)
(***************************************************************************)
\* what a raw stream of n chunks emits: the header, then the audio data of
\* chunks 1..n
StreamOutput(n) == <<"wav_header">> \o [k \in 1..n |-> k]

\* the status has been written to the record of request r by its own update
StatusSeen(r, status) ==
    \E k \in 1..Len(updates_seen[r]) : updates_seen[r][k].status = status

\* C11: what a streaming request of n chunks has emitted is always the
\* beginning of: the header, the audio data of chunk 1, ..., of chunk n; the
\* header is out before any inference call; and once the record has been
\* marked COMPLETED, or the stream has ended, all of it has been emitted
C11_RawStreamSequence ==
    \A r \in Requests :
        req[r].mode = "streaming" =>
            LET full == StreamOutput(Len(req[r].chunks))
                e == req[r].emitted
            IN  /\ Len(e) <= Len(full)
                /\ e = SubSeq(full, 1, Len(e))
                /\ req[r].i >= 1 => Len(e) >= 1
                /\ req[r].pc = "ended" => e = full
                /\ StatusSeen(r, "completed") => e = full
                /\ \A j \in 1..Len(request_history) :
                     (/\ request_history[j].request_id = r
                      /\ request_history[j].status = "completed") => e = full

\* C11's case: a stream of several chunks has ended and its record is in
\* the history as COMPLETED
C11_Witness ==
    \E r \in Requests :
        /\ req[r].mode = "streaming"
        /\ req[r].pc = "ended"
        /\ Len(req[r].chunks) >= 2
        /\ req[r].emitted = StreamOutput(Len(req[r].chunks))
        /\ \E j \in 1..Len(request_history) :
             /\ request_history[j].request_id = r
             /\ request_history[j].status = "completed"

\* C12: while the inference call of chunk i of a streaming request is
\* running, the audio data of chunks 1..i-1 has all been emitted and taken
\* by the consumer; while the audio data of chunk i is held out at the
\* yield, no inference call of a later chunk has begun
C12_EmittedBeforeNextInference ==
    \A r \in Requests :
        req[r].mode = "streaming" =>
            /\ req[r].pc = "inference" =>
                 /\ req[r].emitted = StreamOutput(req[r].i - 1)
                 /\ req[r].audio_chunks = req[r].i - 1
            /\ req[r].pc = "yield_chunk" =>
                 /\ req[r].emitted = StreamOutput(req[r].i)
                 /\ req[r].audio_chunks = req[r].i

\* C12's case: the inference call of a second chunk is running
C12_Witness ==
    \E r \in Requests :
        /\ req[r].mode = "streaming"
        /\ req[r].pc = "inference"
        /\ req[r].i >= 2
        /\ req[r].emitted = StreamOutput(req[r].i - 1)

\* C13: a request with stream_format 'sse' that is served is answered with
\* the event stream (one speech.audio.delta event per chunk, then one
\* speech.audio.done event), not with a WAV buffer or a raw audio stream
C13_SseRequestAnsweredWithEvents ==
    \A r \in Requests :
        (req[r].stream_format = "sse" /\ req[r].pc \in {"returned", "ended"})
            => req[r].response = "event_stream"

(***************************************************************************)
(* Properties of the rejections and of the cleanup.                         *)
(***************************************************************************)
\* C14: the step in which a request is rejected for an over-length text
\* leaves the history, total_requests and the live record as they were
C14_LengthRejectionLeavesNoRecord ==
    [][\A r \in Requests :
          (req[r].pc = "new" /\ req'[r].response = "invalid_request_error")
              => UNCHANGED mgrvars]_vars

\* request r has been rejected without chunking and without any inference
\* call
RejectedBeforeWork(r) ==
    /\ req[r].pc = "raised"
    /\ req[r].chunks = <<>>
    /\ ~StatusSeen(r, "chunking")
    /\ req[r].i = 0
    /\ req[r].audio_chunks = 0
    /\ req[r].emitted = <<>>

OverLength(r) == req[r].pc # "new" /\ req[r].text_length > MAX_TOTAL_LENGTH

C16_ModelErrorLeavesNoLiveRecord ==
    \A r \in Requests :
        (req[r].pc # "new" /\ req[r].model = None) =>
            /\ req[r].response = "model_error"
            /\ RejectedBeforeWork(r)
            /\ ~IsLive(r)

\* C16's case: a request has failed with the model error and its record is
\* in the history as ERROR with the message
C16_Witness ==
    \E r \in Requests :
        /\ req[r].response = "model_error"
        /\ ~IsLive(r)
        /\ \E j \in 1..Len(request_history) :
             /\ request_history[j].request_id = r
             /\ request_history[j].status = "error"
             /\ request_history[j].error_message = "Model not loaded"

\* the raw stream of request r has failed in the inference call of chunk k
StreamFailedAt(r, k) ==
    /\ req[r].mode = "streaming"
    /\ req[r].pc = "raised"
    /\ req[r].response = "generation_error"
    /\ req[r].i = k

\* the record of request r is in the history with the status
ArchivedAs(r, status) ==
    \E j \in 1..Len(request_history) :
        /\ request_history[j].request_id = r
        /\ request_history[j].status = status

\* C17: when the inference call of chunk k of a raw stream fails, the header
\* and the audio data of chunks 1..k-1 stand, nothing of chunk k or of a
\* later chunk has been emitted, the record is finalized as ERROR, and the
\* stream has ended by raising
C17_StreamFailureKeepsEmittedPrefix ==
    \A r \in Requests, k \in 1..MaxSentences :
        StreamFailedAt(r, k) =>
            /\ req[r].emitted = StreamOutput(k - 1)
            /\ ArchivedAs(r, "error")
            /\ ~IsLive(r)

\* C18: every request that has left its pipeline, by any path, has run the
\* cleanup step (release of the buffers and the periodic test of
\* REQUEST_COUNTER) before it ended
C18_CleanupOnEveryPath ==
    \A r \in Requests : Over(r) => req[r].cleanup

(***************************************************************************)
(* Properties of concatenate_audio_chunks and of the streaming settings     *)
(* (under SpecFunctions).                                                   *)
(***************************************************************************)
ConcatenateDone == fn_pc = "done" /\ fn_name = "concatenate_audio_chunks"

\* the sum of the lengths of the first j chunks
LengthOfChunks(chunks, j) ==
    LET sum[i \in 0..j] == IF i = 0 THEN 0 ELSE sum[i - 1] + Len(chunks[i])
    IN  sum[j]

\* out is chunk 1, gap zeros, chunk 2, ..., gap zeros, chunk n, sample by
\* sample, and nothing more
JoinedWithGaps(out, chunks, gap) ==
    LET n == Len(chunks)
        start(j) == LengthOfChunks(chunks, j - 1) + (j - 1) * gap
    IN  /\ Len(out) = LengthOfChunks(chunks, n) + (n - 1) * gap
        /\ \A j \in 1..n : \A k \in 1..Len(chunks[j]) :
               out[start(j) + k] = chunks[j][k]
        /\ \A j \in 1..(n - 1) : \A k \in 1..gap :
               out[start(j) + Len(chunks[j]) + k] = 0

\* round(0.1 * sample_rate), a tie going to the even number
RoundedTenth(sample_rate) ==
    LET q == sample_rate \div 10
        r == sample_rate % 10
    IN  IF r < 5 THEN q
        ELSE IF r > 5 THEN q + 1
        ELSE IF q % 2 = 0 THEN q ELSE q + 1

\* C19 as stated: a single chunk is returned unchanged; n > 1 chunks come
\* back in input order with silence only between adjacent chunks, the total
\* length being the sum of the lengths plus (n-1) * round(0.1 * sample rate),
\* for every sample rate
C19_SilenceOfRoundedTenth ==
    ConcatenateDone =>
        LET chunks == fn_args.audio_chunks
        IN  IF Len(chunks) = 1 THEN fn_result = chunks[1]
            ELSE JoinedWithGaps(fn_result, chunks, RoundedTenth(fn_args.sample_rate))

\* C19: a single chunk is returned unchanged; n > 1 chunks come back in input
\* order with silence only between adjacent chunks, the total length being
\* the sum of the lengths plus (n-1) * floor(0.1 * sample rate), for every
\* sample rate
C19_SilenceOfTruncatedTenth ==
    ConcatenateDone =>
        LET chunks == fn_args.audio_chunks
        IN  IF Len(chunks) = 1 THEN fn_result = chunks[1]
            ELSE JoinedWithGaps(fn_result, chunks, fn_args.sample_rate \div 10)

\* C19's case: three chunks of samples have been joined at a sample rate
\* whose tenth truncates to 1 and rounds to 2
C19_Witness ==
    /\ ConcatenateDone
    /\ fn_args.sample_rate = 16
    /\ fn_args.audio_chunks = << <<1, 1>>, <<2>>, <<3, 3>> >>
    /\ fn_result = <<1, 1, 0, 2, 0, 3, 3>>

\* the argument was given: not None, and not empty
GivenInt(v) == v # NoInt
GivenStr(v) == v # None /\ v # ""

\* the (chunk_size, strategy) of a quality preset; of "balanced" without one
PresetOf(quality) ==
    IF quality = "fast" THEN [chunk_size |-> 100, strategy |-> "word"]
    ELSE IF quality = "high" THEN [chunk_size |-> 300, strategy |-> "paragraph"]
    ELSE [chunk_size |-> 200, strategy |-> "sentence"]

\* C20: by get_streaming_settings and by the preset resolution inside
\* split_text_for_streaming alike, a chunk_size or strategy that was given is
\* used as given and a missing one comes from the quality preset (fast: 100,
\* word; balanced: 200, sentence; high: 300, paragraph; no quality: 200,
\* sentence); the two yield the same pair, also when the second is applied
\* to the settings of the first as the streaming pipeline does
C20_PresetResolution ==
    (fn_pc = "done" /\ fn_args.family = "settings") =>
        LET a == fn_args
            expected ==
                [chunk_size |-> IF GivenInt(a.chunk_size) THEN a.chunk_size
                                ELSE PresetOf(a.quality).chunk_size,
                 strategy |-> IF GivenStr(a.strategy) THEN a.strategy
                              ELSE PresetOf(a.quality).strategy]
            settings == get_streaming_settings(a.chunk_size, a.strategy, a.quality)
        IN  /\ fn_result.chunk_size = expected.chunk_size
            /\ fn_result.strategy = expected.strategy
            /\ streaming_presets(a.chunk_size, a.strategy, a.quality) =
                  [chunk_size |-> settings.chunk_size, strategy |-> settings.strategy]
            /\ streaming_presets(settings.chunk_size, settings.strategy, settings.quality) =
                  expected

\* C20's case: get_streaming_settings has resolved quality "fast" with
\* nothing else given to (100, word)
C20_Witness ==
    /\ fn_pc = "done"
    /\ fn_name = "get_streaming_settings"
    /\ fn_args = [family |-> "settings", chunk_size |-> NoInt, strategy |-> None,
                  quality |-> "fast"]
    /\ fn_result.chunk_size = 100
    /\ fn_result.strategy = "word"

(***************************************************************************)
(* Properties of the sentence strategy (under SpecSplit).                   *)
(***************************************************************************)
\* the sentences of the text: what lies between the whitespace runs that
\* follow '.', '!' or '?', stripped, the blank ones left out
SentencesOf(text) == StripNonBlank(re_split_sentences(strip(text)))

\* units[lo..hi] joined by single blanks
RECURSIVE JoinUnits(_, _, _)
JoinUnits(units, lo, hi) ==
    IF lo = hi THEN units[lo]
    ELSE JoinUnits(units, lo, hi - 1) \o <<" ">> \o units[hi]

\* the runs <<lo, hi>> that the cuts (a cut i lies between unit i and unit
\* i + 1) make of the units lo..n
RECURSIVE RunsFrom(_, _, _)
RunsFrom(lo, n, cuts) ==
    IF lo > n THEN <<>>
    ELSE LET later == {i \in cuts : i >= lo}
             hi == IF later = {} THEN n ELSE SetMin(later)
         IN  <<<<lo, hi>>>> \o RunsFrom(hi + 1, n, cuts)

\* chunks is a greedy packing of the units: the units fall into runs, in
\* order; a unit longer than L is a run of its own and gives the chunks its
\* fallback splitting gives; the other runs are one chunk each, their units
\* whole and joined by single blanks, at most L long; and where two such
\* runs meet, the first unit of the second did not fit: the chunk before it,
\* a blank and the unit are longer than L together
GreedilyPacked(chunks, units, L) ==
    \E cuts \in SUBSET (1..(Len(units) - 1)) :
        LET runs == RunsFrom(1, Len(units), cuts)
            Oversize(k) == runs[k][1] = runs[k][2] /\ Len(units[runs[k][1]]) > L
            Joined(k) == JoinUnits(units, runs[k][1], runs[k][2])
        IN  /\ \A k \in 1..Len(runs) :
                 Oversize(k) \/
                    /\ Len(Joined(k)) <= L
                    /\ \A i \in runs[k][1]..runs[k][2] : Len(units[i]) <= L
            /\ \A k \in 2..Len(runs) :
                 (~Oversize(k - 1) /\ ~Oversize(k)) =>
                     Len(Joined(k - 1)) + 1 + Len(units[runs[k][1]]) > L
            /\ chunks = Flatten([k \in 1..Len(runs) |->
                   IF Oversize(k)
                   THEN NonBlank(_split_long_sentence(units[runs[k][1]], L))
                   ELSE <<Joined(k)>>])

\* C21: with the sentence strategy the chunks are the greedy packing of the
\* sentences: a sentence joins the current chunk exactly when the chunk, a
\* blank and the sentence are at most L long together, else the chunk is
\* closed and a new one begun; a sentence of at most L characters is whole
\* in one chunk; only a sentence longer than L goes to the fallback
\* splitting.  And "Hello. World." with L = 6 gives "Hello.", "World."
C21_SentencesGreedilyPacked ==
    (StreamingDone /\ sp_strategy = "sentence") =>
        /\ GreedilyPacked(sp_chunks, SentencesOf(sp_text), sp_size)
        /\ split_text_for_streaming(
               <<"H", "e", "l", "l", "o", ".", " ", "W", "o", "r", "l", "d", ".">>,
               6, "sentence", None)
             = << <<"H", "e", "l", "l", "o", ".">>, <<"W", "o", "r", "l", "d", ".">> >>

\* C21's case: two sentences, the first exactly L long, the second short,
\* that do not fit one chunk together have come back as two chunks
C21_Witness ==
    /\ StreamingDone
    /\ sp_strategy = "sentence"
    /\ sp_text = <<"b", "b", ".", " ", "a">>
    /\ sp_size = 3
    /\ sp_chunks = << <<"b", "b", ".">>, <<"a">> >>

(***************************************************************************)
(* Properties of the manager's queries.                                     *)
(***************************************************************************)
\* request r has entered its pipeline and has not left it
InFlight(r) == req[r].pc # "new" /\ ~Over(r)

\* C22: get_current_status gives the IDLE answer (status idle, is_processing
\* false, total_requests) exactly when no request is in flight; while some
\* request is in flight it gives a live status with is_processing true
C22_IdleExactlyWhenNothingInFlight ==
    LET status == get_current_status(Mgr)
    IN  IF \E r \in Requests : InFlight(r)
        THEN status.is_processing /\ status.status # "idle"
        ELSE /\ status.status = "idle"
             /\ ~status.is_processing
             /\ status.total_requests = total_requests

\* what the clock may give as the durations of the requests 1..MaxStarts:
\* all the same, all different, or alternating
Clocks ==
    {[id \in 1..MaxStarts |-> 1], [id \in 1..MaxStarts |-> id],
     [id \in 1..MaxStarts |-> 1 + (id % 2)]}

\* a/b = c/d for fractions <<a, b>> and <<c, d>> with b, d > 0
FractionEq(x, y) == x[1] * y[2] = y[1] * x[2]

\* the records of the history with the status
HistoryWith(status) == SelectSeq(request_history, LAMBDA r : r.status = status)

\* the average of the numbers as a fraction; 0 of no numbers
AverageOf(numbers) ==
    IF numbers = <<>> THEN <<0, 1>> ELSE <<SumOf(numbers), Len(numbers)>>

\* get_statistics gives the success rate completed / (completed + errored)
\* of the history (in percent) and the averages of duration and text length
\* over the given records
StatisticsOver(records, clock) ==
    LET stats == get_statistics(Mgr, clock)
        completed == Len(HistoryWith("completed"))
        errored == Len(HistoryWith("error"))
    IN  /\ completed + errored > 0 =>
               FractionEq(stats.success_rate, <<100 * completed, completed + errored>>)
        /\ FractionEq(stats.average_duration_seconds, AverageOf(DurationsOf(records, clock)))
        /\ FractionEq(stats.average_text_length, AverageOf(TextLengthsOf(records)))

\* a step that starts a request
IsStart ==
    /\ current_request' # <<>>
    /\ current_request = <<>> \/
          current_request'[1].request_id # current_request[1].request_id

\* the total_requests of the statistics counts the starts: one more with
\* each start, the same after every other step (an eviction from the full
\* history and clear_history among them)
TotalCountsStarts ==
    LET clock == [id \in 1..MaxStarts |-> 1]
    IN  get_statistics(Mgr, clock).total_requests' =
            get_statistics(Mgr, clock).total_requests + (IF IsStart THEN 1 ELSE 0)

\* C23 as stated: get_statistics reports the success rate
\* completed / (completed + errored) of the history and the averages of
\* duration and text length over the history's records; its total_requests
\* counts every start and no eviction or clear_history lowers it
C23_AveragesOverHistory ==
    /\ [](\A clock \in Clocks : StatisticsOver(request_history, clock))
    /\ [][TotalCountsStarts]_vars

\* C23: get_statistics reports the success rate as the percentage
\* 100 * completed / (completed + errored) of the history, 0 of a history
\* without such records, and the averages of duration and text length over
\* the COMPLETED records of the history, 0 when there is none; its
\* total_requests counts every start and no eviction or clear_history lowers
\* it
C23_AveragesOverCompleted ==
    /\ [](\A clock \in Clocks :
            /\ StatisticsOver(HistoryWith("completed"), clock)
            /\ request_history = <<>> =>
                  get_statistics(Mgr, clock).success_rate[1] = 0)
    /\ [][TotalCountsStarts]_vars

\* C23's case: the history is full, holds completed and failed records and
\* has lost its oldest record to eviction
C23_Witness ==
    /\ Len(request_history) = _max_history
    /\ Len(finalized) > _max_history
    /\ HistoryWith("completed") # <<>>
    /\ HistoryWith("error") # <<>>
    /\ get_statistics(Mgr, [id \in 1..MaxStarts |-> id]).total_requests = total_requests

\* records is the k most recently finalized records of the history, the
\* most recent first
MostRecent(records, k) ==
    /\ Len(records) = k
    /\ \A i \in 1..k : records[i] = request_history[Len(request_history) + 1 - i]

\* C24: for every limit >= 0, get_request_history(limit) returns the
\* min(limit, len(history)) most recently finalized records, the most recent
\* first
C24_HistoryLimit ==
    \A limit \in 0..(_max_history + 1) :
        MostRecent(get_request_history(Mgr, limit),
                   IF limit < Len(request_history) THEN limit
                   ELSE Len(request_history))

(***************************************************************************)
(* Properties of the closing of a raw stream.                               *)
(***************************************************************************)
\* the step is the closing of the stream of request r
Closes(r) == req[r].pc # "closed" /\ req'[r].pc = "closed"

\* C25: when the consumer closes the raw stream of a request after the
\* header or after chunk k, the closing step leaves the history,
\* total_requests and the live record as they were and emits nothing, and
\* from then on the request emits no chunk and starts no inference call
C25_ClosedStreamStopsCleanly ==
    [][\A r \in Requests :
          /\ Closes(r) =>
                /\ UNCHANGED mgrvars
                /\ req'[r].emitted = req[r].emitted
                /\ req'[r].i = req[r].i
                /\ req'[r].audio_chunks = req[r].audio_chunks
          /\ req[r].pc = "closed" => req'[r] = req[r]]_vars

\* C25's case: a stream of two chunks has been closed after chunk 1 while
\* the live record was another request's
C25_Witness ==
    \E r, other \in Requests :
        /\ req[r].pc = "closed"
        /\ req[r].emitted = StreamOutput(1)
        /\ Len(req[r].chunks) = 2
        /\ req[r].i = 1
        /\ other # r
        /\ IsLive(other)
        /\ InFlight(other)

(***************************************************************************)
(* Properties of the inference calls.                                       *)
(***************************************************************************)
\* an inference call of request r is outstanding on the worker
InferenceOutstanding(r) == req[r].pc = "inference"

Served(r) == req[r].pc \in {"returned", "ended"}

\* C27: a request generates its chunks one at a time: the inference calls
\* are started in chunk order, one by one; a call returns only while it is
\* outstanding; the call of chunk i + 1 starts only when the calls of chunks
\* 1..i have returned, so at most one is outstanding; and a request that has
\* been served has made exactly one call per chunk
C27_OneInferenceAtATime ==
    [][\A r \in Requests :
          LET started == req[r].i
              returned == req[r].audio_chunks
          IN  /\ started' \in {started, started + 1}
              /\ returned' \in {returned, returned + 1}
              /\ started' = started + 1 =>
                    /\ returned' = started
                    /\ InferenceOutstanding(r)'
              /\ returned' = returned + 1 =>
                    /\ InferenceOutstanding(r)
                    /\ returned' = started
              /\ started' - returned' \in {0, 1}
              /\ InferenceOutstanding(r)' => started' = returned' + 1
              /\ Served(r)' =>
                    /\ started' = Len(req[r].chunks')
                    /\ returned' = Len(req[r].chunks')]_vars

\* C27's case: a buffered and a streaming request of two chunks each have
\* been served
C27_Witness ==
    \E r1, r2 \in Requests :
        /\ req[r1].mode = "buffered" /\ req[r2].mode = "streaming"
        /\ Served(r1) /\ Served(r2)
        /\ Len(req[r1].chunks) = 2 /\ Len(req[r2].chunks) = 2
        /\ req[r1].audio_chunks = 2 /\ req[r2].audio_chunks = 2

(***************************************************************************)
(* C28                                                                      *)
(***************************************************************************)
\* C28: the request_counter GET /memory reports grows with every speech
\* request served: of two answers, the one given after more speech requests
\* had been served reports a larger counter, larger by at least the number
\* of requests served in between less one
C28_CounterGrowsWithRequests ==
    \A i, j \in 1..Len(memory_seen) :
        (i < j /\ memory_seen[j].served > memory_seen[i].served) =>
            /\ memory_seen[j].request_counter > memory_seen[i].request_counter
            /\ memory_seen[j].request_counter >=
                   memory_seen[i].request_counter
                   + (memory_seen[j].served - memory_seen[i].served) - 1

(***************************************************************************)
(* C29                                                                      *)
(***************************************************************************)
\* C29: every start_request leaves exactly one live record, a new one of the
\* request just started, INITIALIZING with progress 0 of 0, whether or not a
\* record was live before; there is never more than one live record, and
\* the live record is the one of the request started last
C29_StartReplacesLive ==
    /\ [](/\ Len(current_request) <= 1
          /\ current_request # <<>> =>
                current_request[1].request_id = total_requests)
    /\ [][total_requests' # total_requests =>
            /\ total_requests' = total_requests + 1
            /\ Len(current_request') = 1
            /\ current_request'[1].request_id = total_requests'
            /\ current_request'[1].status = "initializing"
            /\ current_request'[1].progress.current_chunk = 0
            /\ current_request'[1].progress.total_chunks = 0
            /\ current_request'[1].end_time = None]_vars

\* C29's case: request 1 ended, request 2 was started and was still live
\* when request 3 was started in its place, and request 4 has just been
\* started after request 3 ended
C29_Witness ==
    /\ finalized = <<1, 3>>
    /\ current_request # <<>>
    /\ current_request[1].request_id = 4
    /\ current_request[1].status = "initializing"

(***************************************************************************)
(* C30                                                                      *)
(***************************************************************************)
\* the states of the chain, in its order
LifecycleChain ==
    <<"initializing", "processing_text", "chunking", "generating_audio",
      "concatenating", "finalizing", "completed">>

\* the statuses a record can be written
LifecycleStates == {LifecycleChain[j] : j \in 1..Len(LifecycleChain)} \cup {"error"}

\* the place of each status in the chain; ERROR stands after all of them
LifecycleRank ==
    [status \in LifecycleStates |->
        IF status = "error" THEN Len(LifecycleChain) + 1
        ELSE CHOOSE k \in 1..Len(LifecycleChain) : LifecycleChain[k] = status]

\* the statuses written to the record of request r, in the order written
StatusesWritten(r) ==
    [k \in 1..Len(updates_seen[r]) |-> updates_seen[r][k].status]

\* the statuses never move backwards in the chain, and a terminal status is
\* the last one written
NeverBackwards(statuses) ==
    /\ \A k \in 1..Len(statuses) : statuses[k] \in LifecycleStates
    /\ \A k \in 1..(Len(statuses) - 1) :
          /\ LifecycleRank[statuses[k]] <= LifecycleRank[statuses[k + 1]]
          /\ statuses[k] \notin {"completed", "error"}

\* the number of times the status has been written
TimesWritten(statuses, status) ==
    Cardinality({k \in 1..Len(statuses) : statuses[k] = status})

\* C30 as stated: the statuses written to the record of a request never
\* move backwards in the chain INITIALIZING, PROCESSING_TEXT, CHUNKING,
\* GENERATING_AUDIO, CONCATENATING, FINALIZING, COMPLETED, with ERROR only as
\* the last; and a request that has been served with success has had every
\* state of the chain written
C30_LifecycleChain ==
    \A r \in Requests :
        /\ NeverBackwards(StatusesWritten(r))
        /\ Served(r) =>
              \A j \in 1..Len(LifecycleChain) : StatusSeen(r, LifecycleChain[j])

\* C30 amended: the statuses written to the record of a request never move
\* backwards in the chain and a terminal status is the last one written; a
\* record marked COMPLETED has had INITIALIZING, PROCESSING_TEXT, CHUNKING
\* and GENERATING_AUDIO written (GENERATING_AUDIO once before the first
\* chunk and once per chunk), FINALIZING exactly when the request is
\* buffered, and CONCATENATING exactly when it is buffered and has more than
\* one chunk
C30_LifecycleOfCompletedRecords ==
    \A r \in Requests :
        LET written == StatusesWritten(r)
        IN  /\ NeverBackwards(written)
            /\ StatusSeen(r, "completed") =>
                  /\ \A j \in 1..4 : StatusSeen(r, LifecycleChain[j])
                  /\ TimesWritten(written, "generating_audio") = Len(req[r].chunks) + 1
                  /\ StatusSeen(r, "finalizing") <=> req[r].mode = "buffered"
                  /\ StatusSeen(r, "concatenating") <=>
                        (req[r].mode = "buffered" /\ Len(req[r].chunks) > 1)

\* C30's case: a buffered request of two chunks and a streaming request
\* have both been marked COMPLETED, the first through all seven states
C30_Witness ==
    \E r1, r2 \in Requests :
        /\ req[r1].mode = "buffered" /\ Len(req[r1].chunks) = 2
        /\ \A j \in 1..Len(LifecycleChain) : StatusSeen(r1, LifecycleChain[j])
        /\ req[r2].mode = "streaming" /\ Len(req[r2].chunks) = 2
        /\ StatusSeen(r2, "completed")

(***************************************************************************)
(* C31                                                                      *)
(***************************************************************************)
\* the statuses that finalize a record
TerminalStatuses == {"completed", "error"}

\* the record has been finalized: a terminal status and an end time
IsFinalized(record) ==
    record.status \in TerminalStatuses /\ record.end_time # None

\* this step appends a record to the history
HistoryGrows ==
    /\ request_history' # request_history
    /\ request_history' # <<>>
    /\ \/ Len(request_history') = Len(request_history) + 1
       \/ Len(request_history) = _max_history

\* C31: every record of the history has status COMPLETED or ERROR and an end
\* time, and the live record has neither; the step in which the live record
\* is given a terminal status is the step that appends it to the history and
\* empties the live slot, and no other step appends to the history or
\* empties the live slot
C31_OnlyTerminalFinalizes ==
    /\ [](/\ \A j \in 1..Len(request_history) : IsFinalized(request_history[j])
          /\ current_request # <<>> =>
                /\ current_request[1].status \notin TerminalStatuses
                /\ current_request[1].end_time = None)
    /\ [][LET ends == finalized' # finalized /\ finalized' # <<>>
              last == request_history'[Len(request_history')]
          IN  /\ ends =>
                    /\ current_request # <<>>
                    /\ current_request' = <<>>
                    /\ HistoryGrows
                    /\ last.request_id = current_request[1].request_id
                    /\ last.request_id = finalized'[Len(finalized')]
                    /\ IsFinalized(last)
              /\ HistoryGrows => ends
              /\ (current_request # <<>> /\ current_request' = <<>>) => ends]_vars

\* C31's case: the history holds a COMPLETED and an ERROR record and a
\* record that has been updated to a state that is not terminal is live
C31_Witness ==
    /\ \E j \in 1..Len(request_history) : request_history[j].status = "completed"
    /\ \E j \in 1..Len(request_history) : request_history[j].status = "error"
    /\ current_request # <<>>
    /\ current_request[1].status = "generating_audio"

(***************************************************************************)
(* C32                                                                      *)
(***************************************************************************)
\* the history after the record has been appended and the history trimmed
Archive(history, record) ==
    LET appended == Append(history, record)
        n == Len(appended)
    IN  IF n > _max_history THEN SubSeq(appended, n - _max_history + 1, n)
        ELSE appended

\* C32: a record of the history never changes: every step (a start, an
\* update with the id of an archived record, of the live record or of no
\* record) leaves the history as it is, or appends the record that was live
\* to it, the oldest record leaving when the history is full, or is the
\* clear_history that empties it
C32_ArchivedRecordsImmutable ==
    [][\/ request_history' = request_history
       \/ /\ current_request # <<>>
          /\ request_history' # <<>>
          /\ LET record == request_history'[Len(request_history')]
             IN  /\ record.request_id = current_request[1].request_id
                 /\ request_history' = Archive(request_history, record)
       \/ /\ request_history' = <<>>
          /\ finalized' = <<>>
          /\ UNCHANGED <<current_request, total_requests>>]_vars

\* C32's case: request 1 is in the history, and after it was archived
\* request 2 has been started and updated
C32_Witness ==
    /\ request_history # <<>>
    /\ request_history[1].request_id = 1
    /\ request_history[1].status = "error"
    /\ current_request # <<>>
    /\ current_request[1].request_id = 2
    /\ current_request[1].status = "generating_audio"

(***************************************************************************)
(* C33                                                                      *)
(***************************************************************************)
\* the number of updates (GENERATING_AUDIO, current_chunk = i) written to the
\* record of request r
ChunkUpdates(r, i) ==
    Cardinality({k \in 1..Len(updates_seen[r]) :
                    /\ updates_seen[r][k].status = "generating_audio"
                    /\ updates_seen[r][k].progress.current_chunk = i})

\* 0 <= current_chunk <= total_chunks
ProgressInRange(progress) ==
    0 <= progress.current_chunk /\ progress.current_chunk <= progress.total_chunks

\* C33: for chunk i of n of a request, buffered or streaming, the update
\* (GENERATING_AUDIO, current_chunk = i, total_chunks = n) is made once, in
\* the step that starts the inference call of chunk i and as the last update
\* before it, and is never written for a chunk whose call has not started;
\* the live record, the records of the history and every update seen have
\* 0 <= current_chunk <= total_chunks
C33_OneUpdatePerChunk ==
    /\ [](/\ \A r \in Requests, i \in 1..(MaxSentences + 1) :
               /\ ChunkUpdates(r, i) <= 1
               /\ i > req[r].i => ChunkUpdates(r, i) = 0
          /\ \A r \in Requests : \A k \in 1..Len(updates_seen[r]) :
               /\ ProgressInRange(updates_seen[r][k].progress)
               /\ updates_seen[r][k].progress.total_chunks \in {0, Len(req[r].chunks)}
          /\ current_request # <<>> => ProgressInRange(current_request[1].progress)
          /\ \A j \in 1..Len(request_history) :
               ProgressInRange(request_history[j].progress))
    /\ [][\A r \in Requests :
            req[r].i' # req[r].i =>
               /\ req[r].i' = req[r].i + 1
               /\ req[r].pc' = "inference"
               /\ IsLive(r)' =>
                     LET seen == updates_seen[r]'
                         last == seen[Len(seen)]
                     IN  /\ Len(seen) > Len(updates_seen[r])
                         /\ last.status = "generating_audio"
                         /\ last.progress.current_chunk = req[r].i'
                         /\ last.progress.total_chunks = Len(req[r].chunks')
                         /\ \A k \in 1..(Len(seen) - 1) :
                               ~ /\ seen[k].status = "generating_audio"
                                 /\ seen[k].progress.current_chunk = req[r].i'
                         /\ current_request'[1].progress = last.progress]_vars

\* C33's case: a buffered and a streaming request of two chunks each have
\* had the updates of chunk 1 of 2 and of chunk 2 of 2 written
C33_Witness ==
    \E r1, r2 \in Requests :
        /\ req[r1].mode = "buffered" /\ req[r2].mode = "streaming"
        /\ \A r \in {r1, r2} :
              /\ Len(req[r].chunks) = 2
              /\ ChunkUpdates(r, 1) = 1 /\ ChunkUpdates(r, 2) = 1
              /\ req[r].pc = "inference" \/ Served(r)

(***************************************************************************)
(* The status surface: the queries and the clear endpoint, called by        *)
(* clients beside requests that are started and updated one after another.  *)
(* fn_name, fn_args and fn_result hold the last call, its argument as a     *)
(* string, and its answer.                                                  *)
(***************************************************************************)
\* the limits get_tts_history is called with: one record, and the default
HistoryLimits == {1, 5}

\* a call that answers under the manager's lock and assigns nothing
Answer(name, args, result) ==
    /\ WithLock("event_loop")
    /\ fn_name' = name
    /\ fn_args' = args
    /\ fn_result' = result
    /\ UNCHANGED <<fn_pc, current_request, request_history, total_requests, finalized>>

\* get_tts_status()
get_tts_status == Answer("get_tts_status", None, get_current_status(Mgr))

\* get_tts_history(limit)
get_tts_history(limit) ==
    Answer("get_tts_history", ToString(limit), get_request_history(Mgr, limit))

\* get_tts_statistics(); every record has lasted one second
get_tts_statistics ==
    Answer("get_tts_statistics", None,
           get_statistics(Mgr, [id \in 1..MaxStarts |-> 1]))

\* a slip of the clear endpoint: the history is cleared without confirm
clear_request_history_unconfirmed(confirm) ==
    /\ fn_name' = "clear_request_history"
    /\ fn_args' = ToString(confirm)
    /\ fn_result' = [success |-> TRUE]
    /\ clear_tts_history
    /\ UNCHANGED fn_pc

\* POST /status/history/clear?confirm=...
clear_request_history(confirm) ==
    /\ fn_name' = "clear_request_history"
    /\ fn_args' = ToString(confirm)
    /\ IF confirm
       THEN /\ clear_tts_history
            /\ fn_result' = [success |-> TRUE]
       ELSE /\ fn_result' = [message |-> "History clear requires confirmation"]
            /\ UNCHANGED <<mgrvars, finalized>>
    /\ UNCHANGED fn_pc

NextSurface ==
    \/ /\ current_request = <<>>
       /\ total_requests < MaxRequests
       /\ start_tts_request
       /\ UNCHANGED <<splitvars, fnvars, pipevars, memvars, confvars>>
    \/ \E status \in CallStatuses :
         /\ current_request # <<>>
         /\ update_tts_status(current_request[1].request_id, status)
         /\ UNCHANGED <<splitvars, fnvars, pipevars, memvars, confvars>>
    \/ get_tts_status /\ UNCHANGED <<splitvars, pipevars, memvars, confvars>>
    \/ \E limit \in HistoryLimits :
         get_tts_history(limit) /\ UNCHANGED <<splitvars, pipevars, memvars, confvars>>
    \/ get_tts_statistics /\ UNCHANGED <<splitvars, pipevars, memvars, confvars>>
    \/ \E confirm \in BOOLEAN :
         clear_request_history(confirm) /\ UNCHANGED <<splitvars, pipevars, memvars, confvars>>

\* the status surface beside requests served one after another
SpecSurface == Init /\ [][NextSurface]_vars

(***************************************************************************)
(* C34                                                                      *)
(***************************************************************************)
\* the calls of the status surface that only read
SurfaceQueries == {"get_tts_status", "get_tts_history", "get_tts_statistics"}

\* this step is a call of the status surface
SurfaceCall ==
    \/ fn_name' # fn_name
    \/ /\ fn_name # None
       /\ fn_args' # fn_args \/ fn_result' # fn_result

\* C34: a call of get_tts_status, get_tts_history or get_tts_statistics
\* leaves the live record, the history and total_requests as they are; the
\* clear endpoint with confirm=true empties the history and leaves the live
\* record and total_requests as they are; without confirm it changes
\* nothing
C34_SurfaceReadOnlyButClear ==
    [][SurfaceCall =>
          /\ UNCHANGED <<current_request, total_requests>>
          /\ fn_name' \in SurfaceQueries => UNCHANGED request_history
          /\ fn_name' = "clear_request_history" =>
                IF fn_args' = ToString(TRUE) THEN request_history' = <<>>
                ELSE UNCHANGED request_history]_vars

\* C34's case: request 1 has been archived, the confirmed clear has emptied
\* the history while request 2 was live, and request 2 is still live
C34_Witness ==
    /\ fn_name = "clear_request_history"
    /\ fn_args = ToString(TRUE)
    /\ request_history = <<>>
    /\ total_requests = 2
    /\ current_request # <<>>
    /\ current_request[1].request_id = 2

(***************************************************************************)
(* The pipelines beside clients that set and clear the default voice.       *)
(***************************************************************************)
\* what a request gives of exaggeration, cfg_weight and temperature: nothing,
\* or the first two
NothingGiven == [exaggeration |-> None, cfg_weight |-> None, temperature |-> None]
SomeGiven == [exaggeration |-> "1.2", cfg_weight |-> "0.3", temperature |-> None]

\* what the requests give: none of them anything, or the first of them only
GivenParameters ==
    {[r \in Requests |-> NothingGiven],
     [r \in Requests |-> IF r = 1 THEN SomeGiven ELSE NothingGiven]}

\* as ServerInit once the model has been loaded, with the parameters each
\* request will give, and a library loaded from a voices.json that holds
\* voice "a"
VoiceInit ==
    /\ _lock = None
    /\ current_request = NewManager.current_request
    /\ request_history = NewManager.request_history
    /\ total_requests = NewManager.total_requests
    /\ REQUEST_COUNTER = 0
    /\ model_loaded = TRUE
    /\ req \in {[r \in Requests |->
                    [NewRequest EXCEPT !.exaggeration = g[r].exaggeration,
                                       !.cfg_weight = g[r].cfg_weight,
                                       !.temperature = g[r].temperature]] :
                   g \in GivenParameters}
    /\ finalized = <<>>
    /\ updates_seen = [r \in Requests |-> <<>>]
    /\ memory_REQUEST_COUNTER = 0
    /\ memory_seen = <<>>
    /\ VOICE_SAMPLE_PATH = SystemVoicePath
    /\ _metadata = <<[name |-> "a", path |-> VoicePathOf("a"), aliases |-> <<>>]>>
    /\ _config = [default_voice |-> None, default_voice_path |-> None]
    /\ library_files = {VoicePathOf("a")}

InitVoice == SplitIdle /\ FnIdle /\ VoiceInit

\* the requests' text, of as many chunks as a text here can have, and the
\* streaming parameters, all defaulted
VoiceText == Sentences(MaxSentences)
VoiceStreamingParams == [chunk_size |-> NoInt, strategy |-> None, quality |-> None]

NextVoice ==
    \/ \E r \in Requests :
         generate_speech_internal(r, VoiceText) /\ UNCHANGED <<splitvars, fnvars, finalized, memvars, confvars>>
    \/ \E r \in Requests : buffered_inference_returns(r) /\ UNCHANGED <<splitvars, fnvars, finalized, memvars, confvars>>
    \/ \E r \in Requests :
         generate_speech_streaming(r, VoiceText, VoiceStreamingParams) /\ UNCHANGED <<splitvars, fnvars, finalized, memvars, confvars>>
    \/ \E r \in Requests : streaming_after_header(r) /\ UNCHANGED <<splitvars, fnvars, finalized, memvars, confvars>>
    \/ \E r \in Requests : streaming_inference_returns(r) /\ UNCHANGED <<splitvars, fnvars, finalized, memvars, confvars>>
    \/ \E r \in Requests : streaming_after_chunk(r) /\ UNCHANGED <<splitvars, fnvars, finalized, memvars, confvars>>
    \/ \E voice_name \in VoiceNames :
         /\ set_default_voice(voice_name)
         /\ UNCHANGED <<splitvars, fnvars, mgrvars, finalized, pipevars, memvars>>
    \/ /\ clear_default_voice
       /\ UNCHANGED <<splitvars, fnvars, mgrvars, finalized, pipevars, memvars>>

\* the pipelines while the default voice is set and cleared
SpecVoice == InitVoice /\ [][NextVoice]_vars

(***************************************************************************)
(* C35                                                                      *)
(***************************************************************************)
\* C35: every call of model.generate for a request is given the voice
\* sample path that was configured when the request arrived and the
\* exaggeration, cfg_weight and temperature the request gave, or else the
\* configured ones: the same arguments in every call of the request, whatever
\* the default voice has become and whatever other requests give; and the
\* path a request has arrived with never changes
C35_SameArgumentsInEveryCall ==
    /\ [](\A r \in Requests :
            /\ Len(req[r].generate_calls) = req[r].i
            /\ \A k \in 1..Len(req[r].generate_calls) :
                 LET args == req[r].generate_calls[k]
                 IN  /\ args = req[r].generate_calls[1]
                     /\ args.audio_prompt_path = req[r].voice_sample_path
                     /\ args.exaggeration =
                           (IF req[r].exaggeration # None THEN req[r].exaggeration
                            ELSE EXAGGERATION)
                     /\ args.cfg_weight =
                           (IF req[r].cfg_weight # None THEN req[r].cfg_weight
                            ELSE CFG_WEIGHT)
                     /\ args.temperature =
                           (IF req[r].temperature # None THEN req[r].temperature
                            ELSE TEMPERATURE))
    /\ [][\A r \in Requests :
            /\ req[r].pc # "new" =>
                  /\ req[r].voice_sample_path' = req[r].voice_sample_path
                  /\ req[r].exaggeration' = req[r].exaggeration
                  /\ req[r].cfg_weight' = req[r].cfg_weight
                  /\ req[r].temperature' = req[r].temperature
            /\ (req[r].pc = "new" /\ req[r].pc' # "new") =>
                  req[r].voice_sample_path' = VOICE_SAMPLE_PATH]_vars

\* C35's case: a request has made its two inference calls with the system
\* voice sample although the default voice was set between them, while
\* another request, with other parameters, has been called with the new
\* default voice
C35_Witness ==
    \E r1, r2 \in Requests :
        /\ Len(req[r1].generate_calls) = 2
        /\ req[r1].generate_calls[2].audio_prompt_path = SystemVoicePath
        /\ Len(req[r2].generate_calls) >= 1
        /\ req[r2].generate_calls[1].audio_prompt_path = VoicePathOf("a")
        /\ req[r2].generate_calls[1].exaggeration # req[r1].generate_calls[1].exaggeration
        /\ req[r1].pc = "inference" /\ req[r2].pc = "inference"

(***************************************************************************)
(* C36                                                                      *)
(***************************************************************************)
\* C36: split_text_for_streaming gives the same chunks whenever it is given
\* the same text, chunk size and strategy, and every chunk it returns, split
\* again with the same chunk size and strategy, comes back as the one chunk
C36_ChunkingIdempotent ==
    StreamingDone =>
        /\ sp_chunks = split_text_for_streaming(sp_text, sp_size, sp_strategy, None)
        /\ \A k \in 1..Len(sp_chunks) :
              split_text_for_streaming(sp_chunks[k], sp_size, sp_strategy, None)
                  = <<sp_chunks[k]>>

C36_Witness ==
    /\ StreamingDone
    /\ Len(sp_chunks) >= 2
    /\ \E k \in 1..Len(sp_chunks) :
          /\ Len(sp_chunks[k]) = sp_size
          /\ \E j \in 1..Len(sp_chunks[k]) : IsSpace(sp_chunks[k][j])

(***************************************************************************)
(* The pipelines under fair scheduling.                                     *)
(***************************************************************************)
\* the steps request r takes by itself once it has been accepted: the event
\* loop resumes the coroutine, the executor's inference call returns or
\* raises, the consumer that has not closed the stream pulls the next item
PipelineStep(r) ==
    /\ \/ buffered_inference_returns(r)
       \/ buffered_inference_raises(r)
       \/ streaming_after_header(r)
       \/ streaming_inference_returns(r)
       \/ streaming_inference_raises(r)
       \/ streaming_after_chunk(r)
    /\ UNCHANGED <<splitvars, fnvars, finalized, memvars, confvars>>

\* the pipelines where no request that can take a step waits forever
SpecFair == Init /\ [][Next]_vars /\ \A r \in Requests : WF_vars(PipelineStep(r))

\* C37: every request whose record start() has made the live record is
\* eventually in the history as COMPLETED or ERROR, given that each inference
\* call returns or raises: also a request overlapped by a later one and a
\* stream closed by its consumer
C37_EveryStartedRequestFinalized ==
    \A r \in Requests :
        IsLive(r) ~> (ArchivedAs(r, "completed") \/ ArchivedAs(r, "error"))

\* C38: while the live record of a request shows a progress of 100 percent
\* (current_chunk = total_chunks > 0), every chunk of the request has been
\* generated: no inference call of it is outstanding or still to be made
C38_FullProgressMeansAllGenerated ==
    \A r \in Requests :
        IsLive(r) =>
            LET snapshot == get_current_status(Mgr)
                pct == snapshot.progress.progress_percentage
            IN  (/\ snapshot.progress.total_chunks > 0
                 /\ pct[1] = 100 * pct[2]) =>
                    /\ ~InferenceOutstanding(r)
                    /\ req[r].audio_chunks = Len(req[r].chunks)

(***************************************************************************)
(* What a matching update leaves alone.                                     *)
(***************************************************************************)
NoArgs ==
    [current_step |-> "", current_chunk |-> NoInt, total_chunks |-> NoInt,
     memory_usage |-> None, error_message |-> None]

\* the optional arguments of an update: none given, each one given alone,
\* all given
FrameArgs ==
    {NoArgs,
     [NoArgs EXCEPT !.current_step = "Finalizing audio"],
     [NoArgs EXCEPT !.current_chunk = 2],
     [NoArgs EXCEPT !.total_chunks = 3],
     [NoArgs EXCEPT !.memory_usage = "sample"],
     [NoArgs EXCEPT !.error_message = "TTS generation failed"],
     [current_step |-> "Finalizing audio", current_chunk |-> 2,
      total_chunks |-> 3, memory_usage |-> "sample",
      error_message |-> "TTS generation failed"]}

\* the record after an update with status and the arguments a of the record
\* before: the status is the one given and every field whose argument was
\* not given is as before
FieldsKept(before, after, status, a) ==
    /\ after.status = status
    /\ after.request_id = before.request_id
    /\ after.text_length = before.text_length
    /\ after.voice_source = before.voice_source
    /\ after.parameters = before.parameters
    /\ a.current_step = "" =>
          after.progress.current_step = before.progress.current_step
    /\ a.current_chunk = NoInt =>
          after.progress.current_chunk = before.progress.current_chunk
    /\ a.total_chunks = NoInt =>
          /\ after.progress.total_chunks = before.progress.total_chunks
          /\ after.progress.estimated_completion
                = before.progress.estimated_completion
    /\ a.memory_usage = None => after.memory_usage = before.memory_usage
    /\ a.error_message = None => after.error_message = before.error_message

\* C39: an update of the live record overwrites the status and leaves every
\* field whose argument it does not carry (empty step, no current_chunk, no
\* total_chunks, no memory sample, no error message) as it was; so the
\* ERROR updates of the pipelines keep the progress reached before them
C39_UpdateChangesOnlyWhatItCarries ==
    [](/\ current_request # <<>> =>
            LET m == Mgr
                before == current_request[1]
            IN  \A status \in CallStatuses, a \in FrameArgs :
                    FieldsKept(before,
                               RecordAfter(update_status(m, before.request_id, status,
                                                         a.current_step, a.current_chunk,
                                                         a.total_chunks, a.memory_usage,
                                                         a.error_message),
                                           before.request_id),
                               status, a)
       /\ \A r \in Requests :
            \A k \in 1..Len(updates_seen[r]) :
                updates_seen[r][k].status = "error" =>
                    updates_seen[r][k].progress
                        = IF k = 1 THEN TTSProgressInfo
                          ELSE updates_seen[r][k - 1].progress)

\* C39's case: the inference call of chunk 2 of 2 of a request has raised and
\* its ERROR record shows the progress written before that call
C39_Witness ==
    \E r \in Requests :
        /\ req[r].pc = "raised"
        /\ req[r].response = "generation_error"
        /\ \E j \in 1..Len(request_history) :
              /\ request_history[j].request_id = r
              /\ request_history[j].status = "error"
              /\ request_history[j].error_message = "TTS generation failed"
              /\ request_history[j].progress.current_chunk = 2
              /\ request_history[j].progress.total_chunks = 2
              /\ request_history[j].progress.current_step # ""

(***************************************************************************)
(* The voice library under its management calls.                            *)
(***************************************************************************)
\* the library's calls in any order, with any names
NextLibrary ==
    \/ \E voice_name \in VoiceNames :
         add_voice(voice_name) /\ UNCHANGED <<splitvars, fnvars, mgrvars, finalized, pipevars, memvars, VOICE_SAMPLE_PATH, _config>>
    \/ \E voice_name \in VoiceNames, unlinked \in BOOLEAN :
         delete_voice(voice_name, unlinked) /\ UNCHANGED <<splitvars, fnvars, mgrvars, finalized, pipevars, memvars, VOICE_SAMPLE_PATH, _config>>
    \/ \E old_name, new_name \in VoiceNames, renamed \in BOOLEAN :
         rename_voice(old_name, new_name, renamed) /\ UNCHANGED <<splitvars, fnvars, mgrvars, finalized, pipevars, memvars, VOICE_SAMPLE_PATH, _config>>
    \/ \E voice_name, alias \in VoiceNames :
         add_alias(voice_name, alias) /\ UNCHANGED <<splitvars, fnvars, mgrvars, finalized, pipevars, memvars, VOICE_SAMPLE_PATH, _config>>
    \/ \E voice_name, alias \in VoiceNames :
         remove_alias(voice_name, alias) /\ UNCHANGED <<splitvars, fnvars, mgrvars, finalized, pipevars, memvars, VOICE_SAMPLE_PATH, _config>>

SpecLibrary == Init /\ [][NextLibrary]_vars

\* the voices that have the alias
VoicesWithAlias(alias) ==
    {k \in 1..Len(_metadata) : InList(_metadata[k].aliases, alias)}

\* C40: after any sequence of add_voice, add_alias, remove_alias,
\* rename_voice and delete_voice no string is both a voice name and an alias
\* of some voice, and no alias belongs to two voices
C40_NamesResolveUniquely ==
    \A name \in VoiceNames :
        /\ ~(HasVoice(_metadata, name) /\ VoicesWithAlias(name) # {})
        /\ Cardinality(VoicesWithAlias(name)) <= 1

====
